---- MODULE Spec2Model ----
(***************************************************************************)
(* Authentication and authorization middleware of the task-manager API     *)
(* (middleware/authentication.js, middleware/errorHandler.js): the token   *)
(* codec, the credential extractor, the mandatory and optional gates, the  *)
(* role and ownership checks and the boundary error handler; the password  *)
(* policy and hasher; and the routes of the authenticated application      *)
(* (registration, login, tasks and comments) over its three tables.        *)
(*                                                                         *)
(* The clock counts units of 12 hours, so the default access lifetime      *)
(* '24h' is 2 units and the default refresh lifetime '7d' is 14 units.     *)
(***************************************************************************)
EXTENDS Integers, Sequences, FiniteSets, TLC

\* ------------------------------------------------------------------ bounds
MaxTime == 3
MaxUserId == 2

\* --------------------------------------------------------- configuration
ExpiresIn == 2
RefreshExpiresIn == 14

JWT_CONFIG ==
    [secret |-> "jwt-secret",
     expiresIn |-> ExpiresIn,
     refreshExpiresIn |-> RefreshExpiresIn,
     issuer |-> "task-manager-api",
     audience |-> "task-manager-users"]

\* Other deployments a presented token may come from: the same signing
\* secret with another issuer or audience, or another secret altogether.
OtherIssuer == [JWT_CONFIG EXCEPT !.issuer = "other-api"]

ForeignConfigs ==
    {[JWT_CONFIG EXCEPT !.issuer = "other-api"],
     [JWT_CONFIG EXCEPT !.audience = "other-users"],
     [JWT_CONFIG EXCEPT !.issuer = "other-api", !.audience = "other-users"],
     [JWT_CONFIG EXCEPT !.secret = "other-secret"]}

RoleValues == {"user", "admin", "manager"}

ROLES == [USER |-> "user", ADMIN |-> "admin", MODERATOR |-> "moderator"]

TokenTypes == {"access", "refresh"}

\* ------------------------------------------------------------------ users
User(id, role) ==
    [id |-> id, username |-> <<"name", id>>, email |-> <<"mail", id>>, role |-> role]

Users == {User(i, r) : i \in 1..MaxUserId, r \in RoleValues}

\* req.user before any gate has attached an identity (undefined).
NoUser == [id |-> 0, username |-> <<>>, email |-> <<>>, role |-> "undefined"]

\* ----------------------------------------------------------------- errors
AppError(name, message, statusCode) ==
    [name |-> name,
     message |-> message,
     statusCode |-> statusCode,
     isOperational |-> TRUE,
     status |-> IF statusCode \in 400..499 THEN "fail" ELSE "error"]

AuthenticationError(message) == AppError("AuthenticationError", message, 401)

AuthorizationError(message) == AppError("AuthorizationError", message, 403)

NotFoundError(resource) == AppError("NotFoundError", resource \o <<" not found">>, 404)

\* A plain Error (or a persistence-layer error): no statusCode, no
\* isOperational flag.  statusCode 0 stands for undefined.
PlainError(name, message) ==
    [name |-> name,
     message |-> message,
     statusCode |-> 0,
     isOperational |-> FALSE,
     status |-> "undefined"]

\* next() called with no argument, or nothing thrown.
NoError == PlainError("none", <<>>)

\* ------------------------------------------------------------ token codec
\* The claim set of a token.  nbf is the set holding the not-before time,
\* empty when the token carries none (the codec never sets one).
NullPayload ==
    [userId |-> 0, username |-> <<>>, email |-> <<>>, role |-> "undefined",
     type |-> "undefined", iat |-> 0, iss |-> "", aud |-> "", exp |-> 0, nbf |-> {}]

\* The symmetric signature: a function of the key and of the signed body.
HMAC(key, body) == [key |-> key, body |-> body]

\* Token strings that are no signed claim set: an absent value (null or
\* undefined), the empty string, and text that is not three segments.
NullToken == [fmt |-> "null", payload |-> NullPayload, sig |-> HMAC("", NullPayload)]

EmptyToken == [fmt |-> "empty", payload |-> NullPayload, sig |-> HMAC("", NullPayload)]

JunkToken == [fmt |-> "junk", payload |-> NullPayload, sig |-> HMAC("", NullPayload)]

\* jwt.sign(payload, secret, {expiresIn}): exp is payload.iat + expiresIn.
JwtSign(payload, secret, expiresIn) ==
    LET p == [payload EXCEPT !.exp = payload.iat + expiresIn]
    IN  [fmt |-> "jwt", payload |-> p, sig |-> HMAC(secret, p)]

\* generateToken of a codec configured with cfg, at clock reading t.
GenerateTokenAtOneLifetime(cfg, user, type, t) ==
    LET payload ==
            [userId |-> user.id,
             username |-> user.username,
             email |-> user.email,
             role |-> user.role,
             type |-> type,
             iat |-> t,
             iss |-> cfg.issuer,
             aud |-> cfg.audience,
             exp |-> 0,
             nbf |-> {}]
    IN  JwtSign(payload, cfg.secret, cfg.expiresIn)

GenerateTokenAt(cfg, user, type, t) ==
    LET payload ==
            [userId |-> user.id,
             username |-> user.username,
             email |-> user.email,
             role |-> user.role,
             type |-> type,
             iat |-> t,
             iss |-> cfg.issuer,
             aud |-> cfg.audience,
             exp |-> 0,
             nbf |-> {}]
        expiresIn == IF type = "refresh" THEN cfg.refreshExpiresIn ELSE cfg.expiresIn
    IN  JwtSign(payload, cfg.secret, expiresIn)

VARIABLES
    now,        \* the clock (Date.now()), in units of 12 hours
    issued,     \* the token issued last: what it was issued for, and the
                \* last call of verifyToken on it
    pc,         \* where the request in flight stands
    req,        \* the request: headers, query, and the identity attached to it
    route,      \* the middleware of the matched route still to run
    call,       \* the middleware invocation in progress or last completed
    gate,       \* what the mandatory gate did for this request, if it ran
    res,        \* the response sent (status 0: none yet)
    handlerRan, \* whether the route handler ran for this request
    checked,    \* the last call of validatePasswordStrength: input and result
    users,      \* the users table, in the order of the ids
    tasks,      \* the tasks table, in the order of the ids
    comments,   \* the task_comments table, in the order of the ids
    app,        \* the request to the application in flight: its route, its
                \* input and how far its handler has come
    reply,      \* the response of the application to that request
    held,       \* a token a client received from the application and keeps
    limiter,    \* the rate limiter mounted on /api/: its clock, its map of
                \* request times by client, and the request it saw last
    flights,    \* the requests to POST, PUT and DELETE /api/tasks that are in
                \* flight at the same time
    lastWrite   \* the last write of a task route to the tasks table

codecVars == <<now, issued>>

reqVars == <<pc, req, route, call, gate, res, handlerRan>>

dbVars == <<users, tasks, comments>>

sideVars == <<limiter, flights, lastWrite>>

appVars == <<checked, dbVars, app, reply, held, sideVars>>

vars == <<now, issued, pc, req, route, call, gate, res, handlerRan,
          checked, users, tasks, comments, app, reply, held, limiter,
          flights, lastWrite>>

generateToken(user, type) == GenerateTokenAt(JWT_CONFIG, user, type, now)

\* jwt.verify(token, secret, {issuer, audience}) at clock reading t: the
\* name of the error it throws, or "ok".  The checks run in the library's
\* order: format, signature, not-before, expiry, audience, issuer.
\* (The operators defined just before the one that models the code, here
\* and below, are faulty variants of it: one test dropped, moved or changed.
\* Each property below is violated when the variant stands in for the code.)
JwtVerifyExpiredAfter(token, secret, options, t) ==
    IF token.fmt # "jwt" THEN "JsonWebTokenError"
    ELSE IF token.sig # HMAC(secret, token.payload) THEN "JsonWebTokenError"
    ELSE IF \E nb \in token.payload.nbf : nb > t THEN "NotBeforeError"
    ELSE IF t > token.payload.exp THEN "TokenExpiredError"
    ELSE IF token.payload.aud # options.audience THEN "JsonWebTokenError"
    ELSE IF token.payload.iss # options.issuer THEN "JsonWebTokenError"
    ELSE "ok"

JwtVerifyNoIssuer(token, secret, options, t) ==
    IF token.fmt # "jwt" THEN "JsonWebTokenError"
    ELSE IF token.sig # HMAC(secret, token.payload) THEN "JsonWebTokenError"
    ELSE IF \E nb \in token.payload.nbf : nb > t THEN "NotBeforeError"
    ELSE IF t >= token.payload.exp THEN "TokenExpiredError"
    ELSE "ok"

JwtVerify(token, secret, options, t) ==
    IF token.fmt # "jwt" THEN "JsonWebTokenError"
    ELSE IF token.sig # HMAC(secret, token.payload) THEN "JsonWebTokenError"
    ELSE IF \E nb \in token.payload.nbf : nb > t THEN "NotBeforeError"
    ELSE IF t >= token.payload.exp THEN "TokenExpiredError"
    ELSE IF token.payload.aud # options.audience THEN "JsonWebTokenError"
    ELSE IF token.payload.iss # options.issuer THEN "JsonWebTokenError"
    ELSE "ok"

verifyTokenChecksRecord(token) ==
    LET name == JwtVerify(token, JWT_CONFIG.secret,
                          [issuer |-> JWT_CONFIG.issuer, audience |-> JWT_CONFIG.audience],
                          now)
        stored == \E i \in 1..Len(users) :
                      users[i].id = token.payload.userId /\ users[i].role = token.payload.role
    IN  IF name = "ok" /\ stored
        THEN [threw |-> FALSE, decoded |-> token.payload, error |-> NoError]
        ELSE IF name = "TokenExpiredError"
        THEN [threw |-> TRUE, decoded |-> NullPayload,
              error |-> AuthenticationError(<<"Token has expired">>)]
        ELSE [threw |-> TRUE, decoded |-> NullPayload,
              error |-> AuthenticationError(<<"Invalid token">>)]

\* verifyToken: the decoded payload, or the AuthenticationError it throws.
verifyToken(token) ==
    LET name == JwtVerify(token, JWT_CONFIG.secret,
                          [issuer |-> JWT_CONFIG.issuer, audience |-> JWT_CONFIG.audience],
                          now)
    IN  IF name = "ok"
        THEN [threw |-> FALSE, decoded |-> token.payload, error |-> NoError]
        ELSE IF name = "TokenExpiredError"
        THEN [threw |-> TRUE, decoded |-> NullPayload,
              error |-> AuthenticationError(<<"Token has expired">>)]
        ELSE IF name = "JsonWebTokenError"
        THEN [threw |-> TRUE, decoded |-> NullPayload,
              error |-> AuthenticationError(<<"Invalid token">>)]
        ELSE [threw |-> TRUE, decoded |-> NullPayload,
              error |-> AuthenticationError(<<"Token verification failed">>)]

\* ------------------------------------------------------- codec operations
\* Time passes between requests and while a lookup is awaited; the other
\* middleware run to completion within one reading of the clock.
Tick ==
    /\ now < MaxTime
    /\ pc \in {"idle", "lookup"}
    /\ now' = now + 1
    /\ UNCHANGED <<issued, reqVars, appVars>>

NoVerified ==
    [called |-> FALSE, at |-> 0,
     result |-> [threw |-> FALSE, decoded |-> NullPayload, error |-> NoError]]

NoIssued ==
    [token |-> NullToken, user |-> NoUser, type |-> "undefined", config |-> JWT_CONFIG,
     at |-> 0, verified |-> NoVerified]

\* generateToken(user, type), as the registration and login routes call it.
GenerateToken(user, type) ==
    /\ issued' = [token |-> generateToken(user, type), user |-> user, type |-> type,
                  config |-> JWT_CONFIG, at |-> now, verified |-> NoVerified]
    /\ UNCHANGED <<now, reqVars, appVars>>

\* A token issued by a codec of another deployment; with notBefore the
\* token carries a not-before claim one unit after its issue.
WithNotBefore(token, nb) ==
    LET p == [token.payload EXCEPT !.nbf = {nb}]
    IN  [fmt |-> "jwt", payload |-> p, sig |-> HMAC(token.sig.key, p)]

ForeignGenerateToken(cfg, user, type, notBefore) ==
    /\ LET t == GenerateTokenAt(cfg, user, type, now)
       IN  issued' = [token |-> IF notBefore THEN WithNotBefore(t, now + 1) ELSE t,
                      user |-> user, type |-> type, config |-> cfg, at |-> now,
                      verified |-> NoVerified]
    /\ UNCHANGED <<now, reqVars, appVars>>

\* A call of the exported verifyToken on the token issued last.
VerifyToken ==
    /\ issued.token # NullToken
    /\ issued' = [issued EXCEPT !.verified =
                      [called |-> TRUE, at |-> now, result |-> verifyToken(issued.token)]]
    /\ UNCHANGED <<now, reqVars, appVars>>

\* --------------------------------------------------- credential extractor
\* The Authorization header: its leading scheme text and what follows it.
\* An absent header has scheme "undefined"; a header that is the bare token
\* text has the empty scheme.
NoHeader == [scheme |-> "undefined", rest |-> NullToken]

Bearer(token) == [scheme |-> "Bearer ", rest |-> token]

RawHeader(token) == [scheme |-> "", rest |-> token]

\* JavaScript truthiness of a token string and of a header value.
Truthy(token) == token.fmt \notin {"null", "empty"}

HeaderTruthy(h) == h.scheme # "undefined" /\ (h.scheme # "" \/ Truthy(h.rest))

StartsWithBearer(h) == h.scheme = "Bearer "

Substring7(h) == h.rest

extractTokenSkipEmptyBearer(r) ==
    IF /\ HeaderTruthy(r.headers.authorization)
       /\ StartsWithBearer(r.headers.authorization)
       /\ Truthy(Substring7(r.headers.authorization))
    THEN Substring7(r.headers.authorization)
    ELSE IF Truthy(r.headers.xAccessToken)
    THEN r.headers.xAccessToken
    ELSE IF Truthy(r.query.token)
    THEN r.query.token
    ELSE NullToken

extractTokenQueryFirst(r) ==
    IF HeaderTruthy(r.headers.authorization) /\ StartsWithBearer(r.headers.authorization)
    THEN Substring7(r.headers.authorization)
    ELSE IF Truthy(r.query.token)
    THEN r.query.token
    ELSE IF Truthy(r.headers.xAccessToken)
    THEN r.headers.xAccessToken
    ELSE NullToken

extractToken(r) ==
    IF HeaderTruthy(r.headers.authorization) /\ StartsWithBearer(r.headers.authorization)
    THEN Substring7(r.headers.authorization)
    ELSE IF Truthy(r.headers.xAccessToken)
    THEN r.headers.xAccessToken
    ELSE IF Truthy(r.query.token)
    THEN r.query.token
    ELSE NullToken

\* ------------------------------------------------------------ middleware
\* The identity the gates attach: the projection of the decoded claims.
CallerIdentity(decoded) ==
    [id |-> decoded.userId,
     username |-> decoded.username,
     email |-> decoded.email,
     role |-> decoded.role]

\* What a middleware did: the error it handed to next (NoError: it called
\* next()), and req.user when it returned.
Outcome(error, user) == [error |-> error, user |-> user]

authenticateTokenAnyType(r) ==
    LET token == extractToken(r)
        v == verifyToken(token)
    IN  IF ~Truthy(token)
        THEN Outcome(AuthenticationError(<<"Access token is required">>), r.user)
        ELSE IF v.threw
        THEN Outcome(v.error, r.user)
        ELSE Outcome(NoError, CallerIdentity(v.decoded))

authenticateTokenTypeSwallowed(r) ==
    LET token == extractToken(r)
        v == verifyToken(token)
    IN  IF ~Truthy(token)
        THEN Outcome(AuthenticationError(<<"Access token is required">>), r.user)
        ELSE IF v.threw
        THEN Outcome(v.error, r.user)
        ELSE IF v.decoded.type # "access"
        THEN Outcome(NoError, r.user)
        ELSE Outcome(NoError, CallerIdentity(v.decoded))

authenticateTokenPassMissing(r) ==
    LET token == extractToken(r)
        v == verifyToken(token)
    IN  IF ~Truthy(token)
        THEN Outcome(NoError, r.user)
        ELSE IF v.threw
        THEN Outcome(v.error, r.user)
        ELSE IF v.decoded.type # "access"
        THEN Outcome(AuthenticationError(<<"Invalid token type">>), r.user)
        ELSE Outcome(NoError, CallerIdentity(v.decoded))

authenticateToken(r) ==
    LET token == extractToken(r)
        v == verifyToken(token)
    IN  IF ~Truthy(token)
        THEN Outcome(AuthenticationError(<<"Access token is required">>), r.user)
        ELSE IF v.threw
        THEN Outcome(v.error, r.user)
        ELSE IF v.decoded.type # "access"
        THEN Outcome(AuthenticationError(<<"Invalid token type">>), r.user)
        ELSE Outcome(NoError, CallerIdentity(v.decoded))

optionalAuthAnyType(r) ==
    LET token == extractToken(r)
        v == verifyToken(token)
    IN  IF Truthy(token) /\ ~v.threw
        THEN Outcome(NoError, CallerIdentity(v.decoded))
        ELSE Outcome(NoError, r.user)

optionalAuth(r) ==
    LET token == extractToken(r)
        v == verifyToken(token)
    IN  IF Truthy(token) /\ ~v.threw /\ v.decoded.type = "access"
        THEN Outcome(NoError, CallerIdentity(v.decoded))
        ELSE Outcome(NoError, r.user)

authorizeRolesNoPresenceTest(roles, r) ==
    IF r.user.role \notin roles
    THEN Outcome(AuthorizationError(<<"Role ", r.user.role, " is not authorized">>), r.user)
    ELSE Outcome(NoError, r.user)

authorizeRoles(roles, r) ==
    IF r.user = NoUser
    THEN Outcome(AuthenticationError(<<"User not authenticated">>), r.user)
    ELSE IF r.user.role \notin roles
    THEN Outcome(AuthorizationError(<<"Role ", r.user.role, " is not authorized">>), r.user)
    ELSE Outcome(NoError, r.user)

\* findByPk: the row found, or null.
NoResource == [found |-> FALSE, userId |-> 0]

Resource(owner) == [found |-> TRUE, userId |-> owner]

LookupResults == {NoResource} \cup {Resource(o) : o \in 1..MaxUserId}

\* authorizeResourceOwnership, after findByPk has returned resource.
OwnershipDecisionAdminFirst(r, resource) ==
    IF r.user.role = "admin"
    THEN Outcome(NoError, r.user)
    ELSE IF ~resource.found
    THEN Outcome(PlainError("Error", <<"Resource not found">>), r.user)
    ELSE IF resource.userId # r.user.id
    THEN Outcome(AuthorizationError(<<"Access denied to this resource">>), r.user)
    ELSE Outcome(NoError, r.user)

OwnershipDecision(r, resource) ==
    IF ~resource.found
    THEN Outcome(PlainError("Error", <<"Resource not found">>), r.user)
    ELSE IF r.user.role = "admin"
    THEN Outcome(NoError, r.user)
    ELSE IF resource.userId # r.user.id
    THEN Outcome(AuthorizationError(<<"Access denied to this resource">>), r.user)
    ELSE Outcome(NoError, r.user)

\* --------------------------------------------------------- error handler
ValidationError(message) == AppError("ValidationError", message, 400)

NoResponse == [status |-> 0, message |-> <<>>]

\* globalErrorHandler: the status and message of the response.  The errors
\* these middleware hand over carry no numeric status and no body, so the
\* malformed-JSON and rate-limit branches do not apply to them.
globalErrorHandlerDefaultStatus(err, env) ==
    IF env = "development"
    THEN [status |-> 500, message |-> err.message]
    ELSE IF err.isOperational
    THEN [status |-> 500, message |-> err.message]
    ELSE [status |-> 500, message |-> <<"Something went wrong">>]

globalErrorHandler(err, env) ==
    LET copy == [err EXCEPT !.statusCode = IF err.statusCode # 0 THEN err.statusCode ELSE 500]
        error ==
            IF err.name \in {"SequelizeValidationError"}
            THEN ValidationError(<<"Validation Error">>)
            ELSE IF err.name = "SequelizeUniqueConstraintError"
            THEN ValidationError(<<"Duplicate field value">>)
            ELSE IF err.name = "SequelizeForeignKeyConstraintError"
            THEN ValidationError(<<"Referenced resource does not exist">>)
            ELSE IF err.name = "JsonWebTokenError"
            THEN AuthenticationError(<<"Invalid token">>)
            ELSE IF err.name = "TokenExpiredError"
            THEN AuthenticationError(<<"Token expired">>)
            ELSE copy
    IN  IF env = "development"
        THEN [status |-> error.statusCode, message |-> error.message]
        ELSE IF error.isOperational
        THEN [status |-> error.statusCode, message |-> error.message]
        ELSE [status |-> 500, message |-> <<"Something went wrong">>]

\* authorizeResourceOwnership, before the lookup: the presence test.
OwnershipPrecheckSkipped(r) == Outcome(NoError, r.user)

OwnershipPrecheck(r) ==
    IF r.user = NoUser
    THEN Outcome(AuthenticationError(<<"User not authenticated">>), r.user)
    ELSE Outcome(NoError, r.user)

\* ---------------------------------------------------------------- requests
\* The token strings a client may present: tokens of this codec and of the
\* other deployments issued at any clock reading, with or without a
\* not-before claim, the empty string and unparseable text.
OwnTokens ==
    {GenerateTokenAt(JWT_CONFIG, u, ty, t) :
        u \in Users, ty \in TokenTypes, t \in 0..MaxTime}
    \cup {EmptyToken, JunkToken}

ForeignTokens ==
    {GenerateTokenAt(cfg, u, ty, t) :
        cfg \in ForeignConfigs, u \in Users, ty \in TokenTypes, t \in 0..MaxTime}
    \cup {WithNotBefore(GenerateTokenAt(OtherIssuer, u, ty, t), t + 1) :
        u \in Users, ty \in TokenTypes, t \in 0..MaxTime}

PresentedTokens == OwnTokens \cup ForeignTokens

Request(authorization, xAccessToken, queryToken) ==
    [headers |-> [authorization |-> authorization, xAccessToken |-> xAccessToken],
     query |-> [token |-> queryToken],
     user |-> NoUser]

\* Requests carrying a credential in at most one place; the tokens of the
\* other deployments come as bearer credentials.
Requests ==
    {Request(NoHeader, NullToken, NullToken)}
    \cup {Request(Bearer(t), NullToken, NullToken) : t \in PresentedTokens}
    \cup {Request(RawHeader(t), NullToken, NullToken) : t \in OwnTokens}
    \cup {Request(NoHeader, t, NullToken) : t \in OwnTokens}
    \cup {Request(NoHeader, NullToken, t) : t \in OwnTokens}

\* The middleware chains of the routes: those the application mounts
\* (the gate alone, the gate before the ownership check) and the other
\* compositions of the exported middleware.
Routes ==
    {<<"authenticateToken">>,
     <<"authenticateToken", "authorizeResourceOwnership">>,
     <<"authenticateToken", "authorizeRoles">>,
     <<"optionalAuth">>,
     <<"optionalAuth", "authorizeRoles">>,
     <<"optionalAuth", "authorizeResourceOwnership">>,
     <<"authorizeRoles">>,
     <<"authorizeResourceOwnership">>}

\* The allowed-role sets a route may pass to authorizeRoles.
AllowedRoleSets == SUBSET {ROLES.USER, ROLES.ADMIN, ROLES.MODERATOR}

\* The calls a middleware makes of its continuation on the path that ends
\* in out, each by the argument it passes (NoError for next()).  Every
\* next(...) of the four middleware is the last statement of its path: a
\* return next(...), the closing next(), or the next(error) of the catch
\* block.
NextCallsFallThrough(out) ==
    IF out.error = NoError THEN <<NoError>> ELSE <<out.error, NoError>>

NextCalls(out) == <<out.error>>

NoCall ==
    [name |-> "none", outcome |-> "none", error |-> NoError, token |-> NullToken,
     at |-> 0, userBefore |-> NoUser, roles |-> {}, lookup |-> "none",
     resource |-> NoResource, nexts |-> <<>>]

\* The record of a middleware that ran to completion at once.
Completed(name, out, roles) ==
    [name |-> name,
     outcome |-> IF out.error = NoError THEN "next" ELSE "error",
     error |-> out.error,
     token |-> extractToken(req),
     at |-> now,
     userBefore |-> req.user,
     roles |-> roles,
     lookup |-> "none",
     resource |-> NoResource,
     nexts |-> NextCalls(out)]

\* next() moves on along the route; next(err) goes to the error handlers.
After(out) == IF out.error = NoError THEN "route" ELSE "error"

\* The middleware next in line, "handler" when the chain is through.
Upcoming == IF route = <<>> THEN "handler" ELSE Head(route)

NewRequest(r, chain) ==
    /\ pc = "idle"
    /\ pc' = "route"
    /\ req' = r
    /\ route' = chain
    /\ call' = NoCall
    /\ gate' = NoCall
    /\ res' = NoResponse
    /\ handlerRan' = FALSE
    /\ UNCHANGED <<codecVars, appVars>>

AuthenticateToken ==
    /\ pc = "route"
    /\ Upcoming = "authenticateToken"
    /\ LET out == authenticateToken(req)
       IN  /\ req' = [req EXCEPT !.user = out.user]
           /\ call' = Completed("authenticateToken", out, {})
           /\ gate' = Completed("authenticateToken", out, {})
           /\ pc' = After(out)
    /\ route' = Tail(route)
    /\ UNCHANGED <<codecVars, appVars, res, handlerRan>>

OptionalAuth ==
    /\ pc = "route"
    /\ Upcoming = "optionalAuth"
    /\ LET out == optionalAuth(req)
       IN  /\ req' = [req EXCEPT !.user = out.user]
           /\ call' = Completed("optionalAuth", out, {})
           /\ pc' = After(out)
    /\ route' = Tail(route)
    /\ UNCHANGED <<codecVars, appVars, gate, res, handlerRan>>

AuthorizeRoles(roles) ==
    /\ pc = "route"
    /\ Upcoming = "authorizeRoles"
    /\ LET out == authorizeRoles(roles, req)
       IN  /\ call' = Completed("authorizeRoles", out, roles)
           /\ pc' = After(out)
    /\ route' = Tail(route)
    /\ UNCHANGED <<codecVars, appVars, req, gate, res, handlerRan>>

\* authorizeResourceOwnership up to its await: the presence test, then the
\* call of findByPk.
OwnershipStart ==
    /\ pc = "route"
    /\ Upcoming = "authorizeResourceOwnership"
    /\ LET out == OwnershipPrecheck(req)
           done == Completed("authorizeResourceOwnership", out, {})
       IN  IF out.error = NoError
           THEN /\ call' = [done EXCEPT !.outcome = "pending", !.lookup = "pending",
                                        !.nexts = <<>>]
                /\ pc' = "lookup"
           ELSE /\ call' = done
                /\ pc' = "error"
    /\ route' = Tail(route)
    /\ UNCHANGED <<codecVars, appVars, req, gate, res, handlerRan>>

\* findByPk resolves: the decision is taken and next is called.
LookupReturns(resource) ==
    /\ pc = "lookup"
    /\ LET out == OwnershipDecision(req, resource)
       IN  /\ call' = [call EXCEPT !.outcome = IF out.error = NoError THEN "next" ELSE "error",
                                   !.error = out.error,
                                   !.lookup = "returned",
                                   !.resource = resource,
                                   !.nexts = NextCalls(out)]
           /\ pc' = After(out)
    /\ UNCHANGED <<codecVars, appVars, req, route, gate, res, handlerRan>>

\* findByPk rejects: the catch block hands the error to next.
LookupThrows ==
    /\ pc = "lookup"
    /\ LET out == [user |-> req.user,
                   error |-> PlainError("SequelizeDatabaseError", <<"query failed">>)]
       IN  call' = [call EXCEPT !.outcome = "error",
                                !.error = out.error,
                                !.lookup = "threw",
                                !.nexts = NextCalls(out)]
    /\ pc' = "error"
    /\ UNCHANGED <<codecVars, appVars, req, route, gate, res, handlerRan>>

\* The route handler at the end of the chain.
Handler ==
    /\ pc = "route"
    /\ Upcoming = "handler"
    /\ handlerRan' = TRUE
    /\ res' = [status |-> 200, message |-> <<"ok">>]
    /\ pc' = "responded"
    /\ UNCHANGED <<codecVars, appVars, req, route, call, gate>>

\* next(err) reaches globalErrorHandler, mounted last.
\* process.env.NODE_ENV is read when the handler runs.
GlobalErrorHandler(nodeEnv) ==
    /\ pc = "error"
    /\ res' = globalErrorHandler(call.error, nodeEnv)
    /\ pc' = "responded"
    /\ UNCHANGED <<codecVars, appVars, req, route, call, gate, handlerRan>>

\* The response is on its way; the server is ready for the next request.
Finish ==
    /\ pc = "responded"
    /\ pc' = "idle"
    /\ req' = Request(NoHeader, NullToken, NullToken)
    /\ route' = <<>>
    /\ call' = NoCall
    /\ gate' = NoCall
    /\ res' = NoResponse
    /\ handlerRan' = FALSE
    /\ UNCHANGED <<codecVars, appVars>>

\* ------------------------------------------------- extractor on its own
\* Authorization headers of other forms: another scheme, and the scheme
\* word in lower case.
Basic(token) == [scheme |-> "Basic ", rest |-> token]

LowercaseBearer(token) == [scheme |-> "bearer ", rest |-> token]

\* Requests carrying any combination of Authorization header,
\* x-access-token header and token query parameter.
ExtractTokens ==
    {GenerateTokenAt(JWT_CONFIG, User(i, "user"), "access", 0) : i \in 1..MaxUserId}
    \cup {EmptyToken, JunkToken}

AuthorizationHeaders ==
    {NoHeader}
    \cup {Bearer(t) : t \in ExtractTokens}
    \cup {RawHeader(t) : t \in ExtractTokens}
    \cup {Basic(t) : t \in ExtractTokens}
    \cup {LowercaseBearer(t) : t \in ExtractTokens}

ExtractRequests ==
    {Request(h, x, q) :
        h \in AuthorizationHeaders,
        x \in ExtractTokens \cup {NullToken},
        q \in ExtractTokens \cup {NullToken}}

\* A call of the exported extractToken on a request.
ExtractToken(r) ==
    /\ pc = "idle"
    /\ req' = r
    /\ call' = [NoCall EXCEPT !.name = "extractToken", !.token = extractToken(r)]
    /\ UNCHANGED <<codecVars, appVars, pc, route, gate, res, handlerRan>>

\* ------------------------------------------- the gate and the HTTP method
\* The methods of the routes the application mounts, and a request with
\* its method.  The extractor is handed the whole request.
Methods == {"GET", "POST", "PUT", "DELETE"}

WithMethod(r, method) ==
    [method |-> method, headers |-> r.headers, query |-> r.query, user |-> r.user]

MethodRequests == {WithMethod(r, m) : r \in ExtractRequests, m \in Methods}

\* -------------------------------------------------------- password policy
MinLength == 8

SaltRounds == 12

PASSWORD_CONFIG ==
    [saltRounds |-> SaltRounds,
     minLength |-> MinLength,
     requireUppercase |-> TRUE,
     requireLowercase |-> TRUE,
     requireNumbers |-> TRUE,
     requireSpecialChars |-> TRUE]

\* The character classes of the four regular expressions.
UpperCase ==
    {"A", "B", "C", "D", "E", "F", "G", "H", "I", "J", "K", "L", "M",
     "N", "O", "P", "Q", "R", "S", "T", "U", "V", "W", "X", "Y", "Z"}

LowerCase ==
    {"a", "b", "c", "d", "e", "f", "g", "h", "i", "j", "k", "l", "m",
     "n", "o", "p", "q", "r", "s", "t", "u", "v", "w", "x", "y", "z"}

Digits == {"0", "1", "2", "3", "4", "5", "6", "7", "8", "9"}

SpecialChars ==
    {"!", "@", "#", "$", "%", "^", "&", "*", "(", ")", ",", ".", "?", "\"",
     ":", "{", "}", "|", "<", ">"}

\* A password argument: a string, as the sequence of its characters, or
\* the absent value (undefined, or null).
Str(chars) == [defined |-> TRUE, chars |-> chars]

Undefined == [defined |-> FALSE, chars |-> <<>>]

\* regex.test(password): some character of the string is in the class.
RegexTest(class, chars) == \E i \in 1..Len(chars) : chars[i] \in class

\* The result of a call: threw, or the record {isValid, errors}.
PolicyResult(threw, errors) ==
    [threw |-> threw, isValid |-> Len(errors) = 0, errors |-> errors]

validatePasswordStrengthDigitFirst(password) ==
    IF ~password.defined
    THEN [threw |-> TRUE, isValid |-> FALSE, errors |-> <<>>]
    ELSE PolicyResult(FALSE,
            (IF Len(password.chars) < PASSWORD_CONFIG.minLength
             THEN <<"Password must be at least 8 characters long">> ELSE <<>>)
            \o (IF PASSWORD_CONFIG.requireUppercase /\ ~RegexTest(UpperCase, password.chars)
                THEN <<"Password must contain at least one uppercase letter">> ELSE <<>>)
            \o (IF PASSWORD_CONFIG.requireNumbers /\ ~RegexTest(Digits, password.chars)
                THEN <<"Password must contain at least one number">> ELSE <<>>)
            \o (IF PASSWORD_CONFIG.requireLowercase /\ ~RegexTest(LowerCase, password.chars)
                THEN <<"Password must contain at least one lowercase letter">> ELSE <<>>)
            \o (IF PASSWORD_CONFIG.requireSpecialChars /\ ~RegexTest(SpecialChars, password.chars)
                THEN <<"Password must contain at least one special character">> ELSE <<>>))

\* validatePasswordStrength.  Reading password.length of an absent value
\* throws a TypeError before any rule is tested.
validatePasswordStrength(password) ==
    IF ~password.defined
    THEN [threw |-> TRUE, isValid |-> FALSE, errors |-> <<>>]
    ELSE PolicyResult(FALSE,
            (IF Len(password.chars) < PASSWORD_CONFIG.minLength
             THEN <<"Password must be at least 8 characters long">> ELSE <<>>)
            \o (IF PASSWORD_CONFIG.requireUppercase /\ ~RegexTest(UpperCase, password.chars)
                THEN <<"Password must contain at least one uppercase letter">> ELSE <<>>)
            \o (IF PASSWORD_CONFIG.requireLowercase /\ ~RegexTest(LowerCase, password.chars)
                THEN <<"Password must contain at least one lowercase letter">> ELSE <<>>)
            \o (IF PASSWORD_CONFIG.requireNumbers /\ ~RegexTest(Digits, password.chars)
                THEN <<"Password must contain at least one number">> ELSE <<>>)
            \o (IF PASSWORD_CONFIG.requireSpecialChars /\ ~RegexTest(SpecialChars, password.chars)
                THEN <<"Password must contain at least one special character">> ELSE <<>>))

\* The arguments tried: every string of up to MaxShortLen characters over
\* one character of each class and one of none, each of them also
\* followed by eight characters of no class, the two strings "abc" and
\* "Abcdef1!", and the absent value.
MaxShortLen == 3

PolicyAlphabet == {"A", "b", "1", "!", "_"}

ShortStrings == UNION {[1..n -> PolicyAlphabet] : n \in 0..MaxShortLen}

Padding == <<"_", "_", "_", "_", "_", "_", "_", "_">>

PasswordArguments ==
    {Str(s) : s \in ShortStrings}
    \cup {Str(s \o Padding) : s \in ShortStrings}
    \cup {Str(<<"a", "b", "c">>), Str(<<"A", "b", "c", "d", "e", "f", "1", "!">>)}
    \cup {Undefined}

NoChecked == [called |-> FALSE, password |-> Undefined, result |-> PolicyResult(FALSE, <<>>)]

\* A call of the exported validatePasswordStrength.
ValidatePasswordStrength(password) ==
    /\ checked' = [called |-> TRUE, password |-> password,
                   result |-> validatePasswordStrength(password)]
    /\ UNCHANGED <<codecVars, reqVars, sideVars, dbVars, app, reply, held>>

\* ------------------------------------------------------------ application
\* bcrypt.hash with the configured rounds: a value that is not the
\* password and that bcrypt.compare matches against that password only.
\* The random salt decides nothing here and is left out.
BcryptHash(password, rounds) == [bcrypt |-> password.chars, rounds |-> rounds]

hashPassword(password) == BcryptHash(password, PASSWORD_CONFIG.saltRounds)

\* comparePassword: bcrypt.compare throws on an absent password, and the
\* catch block throws 'Password comparison failed' in its place.
comparePassword(password, hashedPassword) ==
    IF ~password.defined
    THEN [threw |-> TRUE, match |-> FALSE]
    ELSE [threw |-> FALSE, match |-> hashedPassword.bcrypt = password.chars]

\* A row of the users table.
UserRow(id, username, email, password, role) ==
    [id |-> id, username |-> username, email |-> email, password |-> password,
     role |-> role, isActive |-> TRUE]

\* The body of a registration or login request.  An absent username, email
\* or role is the empty sequence or "undefined".
Body(username, email, password, role) ==
    [username |-> username, email |-> email, password |-> password, role |-> role]

NoBody == Body(<<>>, <<>>, Undefined, "undefined")

\* userSchema.validate(req.body): the message of the first rule broken, in
\* the order of the keys of the schema, none when the body passes.
userSchemaValidate(body) ==
    IF body.username = <<>> THEN <<"\"username\" is required">>
    ELSE IF body.email = <<>> THEN <<"\"email\" is required">>
    ELSE IF ~body.password.defined THEN <<"\"password\" is required">>
    ELSE IF Len(body.password.chars) < 8
    THEN <<"Password must be at least 8 characters long">>
    ELSE IF Len(body.password.chars) > 255
    THEN <<"Password cannot exceed 255 characters">>
    ELSE IF body.role \notin {"undefined", "user", "admin", "manager"}
    THEN <<"Role must be one of: user, admin, manager">>
    ELSE <<>>

\* toJSON() of a row, and the object left when one key is taken out of it
\* ({ password, ...userResponse }).
ToJSON(row) == row

WithoutNothing(object, key) == object

Without(object, key) == [k \in DOMAIN object \ {key} |-> object[k]]

\* The object Sequelize builds for an included model with attributes.
Attributes(row, keys) == [k \in keys |-> row[k]]

\* The response of the application: status (0: none yet) and the parts of
\* the JSON body.  user holds the user object of the body, if any; tokens
\* the pair of tokens; items the task or comment objects.
Reply(status, message, details, user, tokens, items) ==
    [status |-> status, message |-> message, details |-> details,
     user |-> user, tokens |-> tokens, items |-> items]

NoReply == Reply(0, <<>>, <<>>, <<>>, <<>>, <<>>)

ErrorReply(status, message, details) == Reply(status, message, details, <<>>, <<>>, <<>>)


NoRow == UserRow(0, <<>>, <<>>, BcryptHash(Undefined, 0), "undefined")

\* The request in flight.  token is the bearer credential it presents,
\* taskId its :id parameter and user the identity the gate attached
\* (req.user).  hashCalls, createCalls and compareCalls count
\* the calls of hashPassword, User.create and comparePassword made for it;
\* tokens are the tokens generateToken has returned to its handler.
NoApp ==
    [pc |-> "idle", route |-> "none", body |-> NoBody,
     token |-> NullToken, taskId |-> 0, user |-> NoUser,
     hashCalls |-> 0, createCalls |-> 0, compareCalls |-> 0,
     hashed |-> BcryptHash(Undefined, 0), found |-> NoRow, tokens |-> <<>>,
     error |-> NoError, usersBefore |-> 0]

NoHeld == [token |-> NullToken, user |-> NoRow, at |-> 0]

\* The two calls of generateToken the registration and login handlers make.
IssueTokensAccessTwice(user) ==
    <<generateToken(user, "access"), generateToken(user, "access")>>

IssueTokensDefaultRole(user) ==
    <<generateToken([user EXCEPT !.role = "user"], "access"),
      generateToken([user EXCEPT !.role = "user"], "refresh")>>

IssueTokens(user) ==
    <<generateToken(user, "access"), generateToken(user, "refresh")>>

\* The bodies clients send.  Passwords: one that meets the policy, one of
\* eight lower-case letters, a short one, and none.
GoodPassword == Str(<<"A", "b", "c", "d", "e", "f", "1", "!">>)

LowercasePassword == Str(<<"a", "b", "c", "d", "e", "f", "g", "h">>)

ShortPassword == Str(<<"a", "b", "c">>)

AppPasswords == {GoodPassword, LowercasePassword, ShortPassword, Undefined}

BodyRoles == {"undefined", "user", "admin", "manager", "moderator"}

RegisterBodies ==
    {Body(<<"name", i>>, <<"mail", i>>, p, r) :
        i \in 1..MaxUserId, p \in AppPasswords, r \in BodyRoles}

LoginBodies ==
    {Body(<<"name", i>>, <<>>, p, "undefined") : i \in 1..MaxUserId, p \in AppPasswords}
    \cup {Body(<<>>, <<"mail", i>>, p, "undefined") : i \in 1..MaxUserId, p \in AppPasswords}

\* POST /api/auth/register arrives; routeLog only writes to the console.
Register(body) ==
    /\ app.pc = "idle"
    /\ app' = [NoApp EXCEPT !.pc = "validateUser", !.route = "register", !.body = body,
                            !.usersBefore = Len(users)]
    /\ reply' = NoReply
    /\ UNCHANGED <<codecVars, reqVars, sideVars, checked, dbVars, held>>

\* validateUser: 400 with the message of the schema, or next().
ValidateUser ==
    /\ app.pc = "validateUser"
    /\ LET details == userSchemaValidate(app.body)
       IN  IF details # <<>>
           THEN /\ reply' = ErrorReply(400, <<"Validation failed">>, details)
                /\ app' = [app EXCEPT !.pc = "responded"]
           ELSE /\ app' = [app EXCEPT !.pc = "handler"]
                /\ UNCHANGED reply
    /\ UNCHANGED <<codecVars, reqVars, sideVars, checked, dbVars, held>>

\* What the registration handler does with the policy's verdict.
RegisterDecisionPolicySkipped(validation) == "hash"

RegisterDecision(validation) ==
    IF validation.threw THEN "throw"
    ELSE IF ~validation.isValid THEN "reject"
    ELSE "hash"

\* The registration handler up to its first await: the policy check, then
\* the call of hashPassword.
RegisterHandler ==
    /\ app.pc = "handler"
    /\ app.route = "register"
    /\ LET validation == validatePasswordStrength(app.body.password)
           decision == RegisterDecision(validation)
       IN  /\ checked' = [called |-> TRUE, password |-> app.body.password,
                          result |-> validation]
           /\ IF decision = "throw"
              THEN /\ app' = [app EXCEPT !.pc = "error",
                                         !.error = PlainError("TypeError",
                                             <<"Cannot read properties of undefined">>)]
                   /\ UNCHANGED reply
              ELSE IF decision = "reject"
              THEN /\ reply' = ErrorReply(400, <<"Password validation failed">>,
                                          validation.errors)
                   /\ app' = [app EXCEPT !.pc = "responded"]
              ELSE /\ app' = [app EXCEPT !.pc = "hashing", !.hashCalls = @ + 1]
                   /\ UNCHANGED reply
    /\ UNCHANGED <<codecVars, reqVars, sideVars, dbVars, held>>

\* hashPassword resolves; the handler calls User.create.
HashResolves ==
    /\ app.pc = "hashing"
    /\ app' = [app EXCEPT !.pc = "creating",
                          !.hashed = hashPassword(app.body.password),
                          !.createCalls = @ + 1]
    /\ UNCHANGED <<codecVars, reqVars, sideVars, checked, dbVars, reply, held>>

\* User.create resolves with the new row, or rejects on the unique
\* constraints of username and email; with the row, the handler issues the
\* tokens and answers 201.
CreateResolves ==
    /\ app.pc = "creating"
    /\ LET role == IF app.body.role # "undefined" THEN app.body.role ELSE "user"
           newUser == UserRow(Len(users) + 1, app.body.username, app.body.email,
                              app.hashed, role)
           duplicate == \E i \in 1..Len(users) :
                            \/ users[i].username = app.body.username
                            \/ users[i].email = app.body.email
           issuedTokens == IssueTokens(newUser)
       IN  IF duplicate
           THEN /\ app' = [app EXCEPT !.pc = "error",
                                      !.error = PlainError("SequelizeUniqueConstraintError",
                                                           <<"Validation error">>)]
                /\ UNCHANGED <<users, reply>>
           ELSE /\ users' = Append(users, newUser)
                /\ app' = [app EXCEPT !.pc = "responded", !.tokens = issuedTokens]
                /\ reply' = Reply(201, <<"User created successfully">>, <<>>,
                                  <<Without(ToJSON(newUser), "password")>>,
                                  issuedTokens, <<>>)
    /\ UNCHANGED <<codecVars, reqVars, sideVars, checked, tasks, comments, held>>

\* POST /api/auth/login arrives; the handler calls User.findOne.
Login(body) ==
    /\ app.pc = "idle"
    /\ app' = [NoApp EXCEPT !.pc = "finding", !.route = "login", !.body = body,
                            !.usersBefore = Len(users)]
    /\ reply' = NoReply
    /\ UNCHANGED <<codecVars, reqVars, sideVars, checked, dbVars, held>>

\* findOne resolves: the row whose username or email is username || email.
FindResolves ==
    /\ app.pc = "finding"
    /\ LET key == IF app.body.username # <<>> THEN app.body.username ELSE app.body.email
           matches == {i \in 1..Len(users) :
                           users[i].username = key \/ users[i].email = key}
       IN  IF matches = {}
           THEN /\ reply' = ErrorReply(401, <<"Invalid credentials">>, <<>>)
                /\ app' = [app EXCEPT !.pc = "responded"]
           ELSE /\ app' = [app EXCEPT !.pc = "comparing",
                                      !.found = users[CHOOSE i \in matches : TRUE],
                                      !.compareCalls = @ + 1]
                /\ UNCHANGED reply
    /\ UNCHANGED <<codecVars, reqVars, sideVars, checked, dbVars, held>>

\* comparePassword resolves or rejects; on a match the handler issues the
\* tokens and answers 200.
CompareResolves ==
    /\ app.pc = "comparing"
    /\ LET compared == comparePassword(app.body.password, app.found.password)
           issuedTokens == IssueTokens(app.found)
       IN  IF compared.threw
           THEN /\ app' = [app EXCEPT !.pc = "error",
                                      !.error = PlainError("Error",
                                                           <<"Password comparison failed">>)]
                /\ UNCHANGED reply
           ELSE IF ~compared.match
           THEN /\ reply' = ErrorReply(401, <<"Invalid credentials">>, <<>>)
                /\ app' = [app EXCEPT !.pc = "responded"]
           ELSE /\ app' = [app EXCEPT !.pc = "responded", !.tokens = issuedTokens]
                /\ reply' = Reply(200, <<"Login successful">>, <<>>,
                                  <<Without(ToJSON(app.found), "password")>>,
                                  issuedTokens, <<>>)
    /\ UNCHANGED <<codecVars, reqVars, sideVars, checked, dbVars, held>>

\* asyncHandler hands a rejection to next; errorLog passes it on and
\* globalErrorHandler answers.
AppErrorHandler(nodeEnv) ==
    /\ app.pc = "error"
    /\ LET rendered == globalErrorHandler(app.error, nodeEnv)
       IN  reply' = ErrorReply(rendered.status, rendered.message, <<>>)
    /\ app' = [app EXCEPT !.pc = "responded"]
    /\ UNCHANGED <<codecVars, reqVars, sideVars, checked, dbVars, held>>

\* The response is sent; the record of the request is dropped.
AppFinish ==
    /\ app.pc = "responded"
    /\ app' = NoApp
    /\ reply' = NoReply
    /\ UNCHANGED <<codecVars, reqVars, sideVars, checked, dbVars, held>>


\* ---------------------------------------------- tokens kept by a client
\* A client keeps one token of a successful response, with the row it was
\* issued for as it was stored then.
KeepToken(i) ==
    /\ app.pc = "responded"
    /\ i \in 1..Len(app.tokens)
    /\ held = NoHeld
    /\ held' = [token |-> app.tokens[i],
                user |-> users[app.tokens[i].payload.userId],
                at |-> now]
    /\ UNCHANGED <<codecVars, reqVars, sideVars, checked, dbVars, app, reply>>

\* The role column of a stored row is changed in the database; no route of
\* the application does it.
UserRoleChanges(i, role) ==
    /\ app.pc = "idle"
    /\ i \in 1..Len(users)
    /\ role # users[i].role
    /\ users' = [users EXCEPT ![i].role = role]
    /\ UNCHANGED <<codecVars, reqVars, sideVars, checked, tasks, comments, app, reply, held>>

\* The accounts that register one after the other, and their logins.
NextAccount == Body(<<"name", Len(users) + 1>>, <<"mail", Len(users) + 1>>,
                    GoodPassword, "undefined")

AccountLogins ==
    {Body(users[i].username, <<>>, GoodPassword, "undefined") : i \in 1..Len(users)}


\* ------------------------------------------------- task and comment routes
MaxTasks == 1

\* Rows of the tasks and task_comments tables; of the columns a body can
\* set, the title stands for all.
TaskRow(id, userId, title) == [id |-> id, userId |-> userId, title |-> title]

NoTask == TaskRow(0, 0, "")

CommentRow(id, taskId, userId) == [id |-> id, taskId |-> taskId, userId |-> userId]

\* Task.findByPk(id): the row of that id, or null.
FindTask(id) ==
    IF \E i \in 1..Len(tasks) : tasks[i].id = id
    THEN tasks[CHOOSE i \in 1..Len(tasks) : tasks[i].id = id]
    ELSE NoTask

\* A task with its included User, attributes id, username and email.
TaskObject(task) ==
    [id |-> task.id, userId |-> task.userId,
     User |-> Attributes(users[task.userId], {"id", "username", "email"})]

\* A comment with its included User, attributes id and username.
CommentObject(comment) ==
    [id |-> comment.id, taskId |-> comment.taskId, userId |-> comment.userId,
     User |-> Attributes(users[comment.userId], {"id", "username"})]

CommentsOf(task) ==
    LET own == SelectSeq(comments, LAMBDA c : c.taskId = task.id)
    IN  [i \in 1..Len(own) |-> CommentObject(own[i])]

\* A task with its User and its TaskComments (GET /api/tasks/:id).
TaskWithComments(task) ==
    [id |-> task.id, userId |-> task.userId,
     User |-> Attributes(users[task.userId], {"id", "username", "email"}),
     TaskComments |-> CommentsOf(task)]

TaskRoutes == {"list", "create", "update", "read", "comment"}

\* The credentials presented: none, or an access token that a login of a
\* stored user returns.
TaskTokens ==
    {NullToken} \cup {generateToken(users[i], "access") : i \in 1..Len(users)}

\* A request to one of the task routes arrives, with a body that passes
\* validateTask or validateCommentWithParams.
TaskRequest(r, token, taskId) ==
    /\ app.pc = "idle"
    /\ r = "create" => Len(tasks) < MaxTasks
    /\ r = "comment" => Len(comments) < MaxTasks
    /\ app' = [NoApp EXCEPT !.pc = "gate", !.route = r, !.token = token,
                            !.taskId = taskId, !.usersBefore = Len(users)]
    /\ reply' = NoReply
    /\ UNCHANGED <<codecVars, reqVars, sideVars, checked, dbVars, held>>

\* authenticateToken, mounted first on every task route.
TaskGate ==
    /\ app.pc = "gate"
    /\ LET header == IF app.token = NullToken THEN NoHeader ELSE Bearer(app.token)
           out == authenticateToken(Request(header, NullToken, NullToken))
       IN  IF out.error # NoError
           THEN app' = [app EXCEPT !.pc = "error", !.error = out.error]
           ELSE app' = [app EXCEPT !.pc = IF app.route = "update" THEN "ownership"
                                          ELSE "handler",
                                   !.user = out.user]
    /\ UNCHANGED <<codecVars, reqVars, sideVars, checked, dbVars, reply, held>>

\* authorizeResourceOwnership(Task, 'id', 'userId') on PUT /api/tasks/:id.
TaskOwnership ==
    /\ app.pc = "ownership"
    /\ LET task == FindTask(app.taskId)
           resource == IF task = NoTask THEN NoResource ELSE Resource(task.userId)
           out == OwnershipDecision([user |-> app.user], resource)
       IN  IF out.error # NoError
           THEN app' = [app EXCEPT !.pc = "error", !.error = out.error]
           ELSE app' = [app EXCEPT !.pc = "handler"]
    /\ UNCHANGED <<codecVars, reqVars, sideVars, checked, dbVars, reply, held>>

NotFoundReply == ErrorReply(404, <<"Task not found">>, <<>>)

ItemReply(status, item) == Reply(status, <<>>, <<>>, <<>>, <<>>, <<item>>)

\* The handlers of the task routes, each from its first query to its
\* response.
TaskHandler ==
    /\ app.pc = "handler"
    /\ app.route \in TaskRoutes
    /\ LET task == FindTask(app.taskId)
           newTask == TaskRow(Len(tasks) + 1, app.user.id, "title")
           newComment == CommentRow(Len(comments) + 1, app.taskId, app.user.id)
       IN  IF app.route = "list"
           THEN /\ reply' = Reply(200, <<>>, <<>>, <<>>, <<>>,
                                  [i \in 1..Len(tasks) |-> TaskObject(tasks[i])])
                /\ UNCHANGED <<tasks, comments>>
           ELSE IF app.route = "create"
           THEN /\ tasks' = Append(tasks, newTask)
                /\ reply' = ItemReply(201, TaskObject(newTask))
                /\ UNCHANGED comments
           ELSE IF task = NoTask
           THEN /\ reply' = NotFoundReply
                /\ UNCHANGED <<tasks, comments>>
           ELSE IF app.route = "update"
           THEN /\ reply' = ItemReply(200, TaskObject(task))
                /\ UNCHANGED <<tasks, comments>>
           ELSE IF app.route = "read"
           THEN /\ reply' = ItemReply(200, TaskWithComments(task))
                /\ UNCHANGED <<tasks, comments>>
           ELSE /\ comments' = Append(comments, newComment)
                /\ reply' = ItemReply(201, CommentObject(newComment))
                /\ UNCHANGED tasks
    /\ app' = [app EXCEPT !.pc = "responded"]
    /\ UNCHANGED <<codecVars, reqVars, sideVars, checked, users, held>>

\* The accounts that register one after the other, as user or as admin.
NextAccounts ==
    {Body(<<"name", Len(users) + 1>>, <<"mail", Len(users) + 1>>, GoodPassword, r) :
        r \in {"undefined", "admin"}}

\* ------------------------------------- task requests in flight together
\* The application serves a request up to its next await and then turns
\* to another; POST, PUT and DELETE on /api/tasks are followed here from
\* await to await, several of them in flight at once.
Slots == {1, 2}

\* The text of the :id parameter: digits, followed by an exponent part
\* e<exponent> when the exponent is not 0 ('10', '1e1').
IdParam(digits, exponent) == [digits |-> digits, exponent |-> exponent]

NoParam == IdParam(0, 0)

\* parseInt(req.params.id) reads the leading digits.
parseInt(param) == param.digits

RECURSIVE Pow10(_)
Pow10(k) == IF k = 0 THEN 1 ELSE 10 * Pow10(k - 1)

\* findByPk(req.params.id) hands the text to the database, which compares
\* the INTEGER column with the number the text denotes.
ColumnValue(param) == param.digits * Pow10(param.exponent)

\* The body of a task request: the title, and the userId key when the
\* client sends one (0: it sends none).
TaskBody(title, userId) == [title |-> title, userId |-> userId]

NoTaskBody == TaskBody("", 0)

\* taskSchema.validate(req.body): the messages of the details; the schema
\* has no userId key, and a key the schema does not name is not allowed.
taskSchemaValidateAllowUnknown(body) ==
    IF body.title = "" THEN <<"Title cannot be empty">> ELSE <<>>

taskSchemaValidate(body) ==
    IF body.title = "" THEN <<"Title cannot be empty">>
    ELSE IF body.userId # 0 THEN <<"\"userId\" is not allowed">>
    ELSE <<>>

\* task.update(req.body): every key of the body that is a column is set.
UpdatedRow(task, body) ==
    [task EXCEPT !.title = body.title,
                 !.userId = IF body.userId # 0 THEN body.userId ELSE @]

\* The id the database gives the next row.
NextTaskId ==
    1 + (IF tasks = <<>> THEN 0
         ELSE CHOOSE m \in {tasks[i].id : i \in 1..Len(tasks)} :
                  \A i \in 1..Len(tasks) : tasks[i].id <= m)

\* A request in flight: its route, the credential, parameter and body it
\* carries, req.user, whether the ownership check let it on, the task
\* instance its handler holds, and the status of its response.
NoFlight ==
    [pc |-> "idle", route |-> "none", token |-> NullToken, param |-> NoParam,
     body |-> NoTaskBody, user |-> NoUser, owned |-> FALSE, task |-> NoTask,
     status |-> 0]

\* A write to the tasks table: who made it, the row it was aimed at and
\* whether that row was still there, and the owner of the row before and
\* after.
NoWrite ==
    [kind |-> "none", by |-> NoUser, taskId |-> 0, existed |-> FALSE,
     ownerBefore |-> 0, ownerAfter |-> 0]

\* The response to a request that next(error) ends.
Failed(flight, error) ==
    [flight EXCEPT !.pc = "responded",
                   !.status = globalErrorHandler(error, "production").status]

Answered(flight, status) == [flight EXCEPT !.pc = "responded", !.status = status]

\* A request arrives and runs up to its first await: the gate, validateTask
\* on POST and PUT, and then either the handler of POST up to Task.create
\* or the ownership check up to findByPk.
TaskArrives(s, r, token, param, body) ==
    /\ flights[s].pc = "idle"
    /\ LET header == IF token = NullToken THEN NoHeader ELSE Bearer(token)
           out == authenticateToken(Request(header, NullToken, NullToken))
           details == IF r = "delete" THEN <<>> ELSE taskSchemaValidate(body)
           flight == [NoFlight EXCEPT !.route = r, !.token = token, !.param = param,
                                      !.body = body, !.user = out.user]
           precheck == OwnershipPrecheck([user |-> out.user])
       IN  flights' = [flights EXCEPT ![s] =
               IF out.error # NoError THEN Failed(flight, out.error)
               ELSE IF details # <<>> THEN Answered(flight, 400)
               ELSE IF r = "create" THEN [flight EXCEPT !.pc = "creating"]
               ELSE IF precheck.error # NoError THEN Failed(flight, precheck.error)
               ELSE [flight EXCEPT !.pc = "ownership"]]
    /\ UNCHANGED <<codecVars, reqVars, checked, dbVars, app, reply, held, limiter, lastWrite>>

\* findByPk of the ownership check resolves; when the check lets the
\* request on, the handler starts and calls findByPk itself.
OwnershipResolves(s) ==
    /\ flights[s].pc = "ownership"
    /\ LET flight == flights[s]
           row == FindTask(ColumnValue(flight.param))
           resource == IF row = NoTask THEN NoResource ELSE Resource(row.userId)
           out == OwnershipDecision([user |-> flight.user], resource)
       IN  flights' = [flights EXCEPT ![s] =
               IF out.error # NoError THEN Failed(flight, out.error)
               ELSE [flight EXCEPT !.pc = "finding", !.owned = TRUE]]
    /\ UNCHANGED <<codecVars, reqVars, checked, dbVars, app, reply, held, limiter, lastWrite>>

\* findByPk of the handler resolves: 404, or the handler holds the task
\* and calls update or destroy on it.
HandlerFindResolves(s) ==
    /\ flights[s].pc = "finding"
    /\ LET flight == flights[s]
           task == FindTask(parseInt(flight.param))
       IN  flights' = [flights EXCEPT ![s] =
               IF task = NoTask THEN Answered(flight, 404)
               ELSE [flight EXCEPT !.pc = "writing", !.task = task]]
    /\ UNCHANGED <<codecVars, reqVars, checked, dbVars, app, reply, held, limiter, lastWrite>>

\* task.update or task.destroy resolves: the statement has acted on the
\* row of the id of the instance, if that row is still there.
WriteResolves(s) ==
    /\ flights[s].pc = "writing"
    /\ LET flight == flights[s]
           row == FindTask(flight.task.id)
           written == UpdatedRow(row, flight.body)
       IN  /\ tasks' =
                  IF flight.route = "update"
                  THEN [i \in 1..Len(tasks) |->
                           IF tasks[i].id = flight.task.id THEN written ELSE tasks[i]]
                  ELSE SelectSeq(tasks, LAMBDA t : t.id # flight.task.id)
           /\ lastWrite' = [kind |-> flight.route, by |-> flight.user,
                            taskId |-> flight.task.id, existed |-> row # NoTask,
                            ownerBefore |-> row.userId,
                            ownerAfter |-> IF flight.route = "update" THEN written.userId
                                           ELSE 0]
           /\ flights' = [flights EXCEPT ![s] =
                  IF flight.route = "update" THEN [flight EXCEPT !.pc = "fetching"]
                  ELSE Answered(flight, 200)]
    /\ UNCHANGED <<codecVars, reqVars, checked, users, comments, app, reply, held, limiter>>

\* Task.create resolves with the new row; the owner is req.user.id.
TaskCreateResolves(s) ==
    /\ flights[s].pc = "creating"
    /\ LET flight == flights[s]
           taskData == TaskRow(NextTaskId, flight.user.id, flight.body.title)
       IN  /\ tasks' = Append(tasks, taskData)
           /\ lastWrite' = [kind |-> "create", by |-> flight.user, taskId |-> taskData.id,
                            existed |-> TRUE, ownerBefore |-> 0,
                            ownerAfter |-> taskData.userId]
           /\ flights' = [flights EXCEPT ![s] = [flight EXCEPT !.pc = "fetching",
                                                                !.task = taskData]]
    /\ UNCHANGED <<codecVars, reqVars, checked, users, comments, app, reply, held, limiter>>

\* The findByPk that fetches the row for the response resolves.
FetchResolves(s) ==
    /\ flights[s].pc = "fetching"
    /\ flights' = [flights EXCEPT ![s] =
           Answered(flights[s], IF flights[s].route = "create" THEN 201 ELSE 200)]
    /\ UNCHANGED <<codecVars, reqVars, checked, dbVars, app, reply, held, limiter, lastWrite>>

\* The response is sent.
FlightFinish(s) ==
    /\ flights[s].pc = "responded"
    /\ flights' = [flights EXCEPT ![s] = NoFlight]
    /\ UNCHANGED <<codecVars, reqVars, checked, dbVars, app, reply, held, limiter, lastWrite>>

\* The accounts and tasks the application holds when these requests
\* arrive: two users and an admin; task 1 of the first user and task 10 of
\* the second, the tasks between them destroyed.
StoredUsers ==
    <<UserRow(1, <<"name", 1>>, <<"mail", 1>>, hashPassword(GoodPassword), "user"),
      UserRow(2, <<"name", 2>>, <<"mail", 2>>, hashPassword(GoodPassword), "user"),
      UserRow(3, <<"name", 3>>, <<"mail", 3>>, hashPassword(GoodPassword), "admin")>>

StoredTasks == <<TaskRow(1, 1, "title"), TaskRow(10, 2, "title")>>

\* The credentials presented: none, or the access token of a stored user.
FlightTokens ==
    {NullToken}
    \cup {GenerateTokenAt(JWT_CONFIG, StoredUsers[i], "access", 0) : i \in 1..Len(StoredUsers)}

IdParams == {IdParam(1, 0), IdParam(10, 0), IdParam(1, 1)}

TaskBodies == {TaskBody("new", 0), TaskBody("new", 1), TaskBody("new", 2), TaskBody("", 0)}

\* ----------------------------------------------------------- rate limiter
\* createBasicRateLimit, mounted on /api/.  Its clock is Date.now() in
\* units of half a window; windowMs is 15 minutes.
WindowMs == 2

\* maxRequests, which the source sets to 100: the number of requests of one
\* client the limiter forwards within a window.
MaxRequests == 2

\* The last reading of the limiter's clock.
MaxRateTime == 3

\* The requests that arrive: req.ip and req.connection.remoteAddress.
RateRequests ==
    {[ip |-> "10.0.0.1", remoteAddress |-> "10.0.0.1"],
     [ip |-> "undefined", remoteAddress |-> "undefined"]}

\* req.ip || req.connection.remoteAddress || 'unknown'
ClientIp(r) ==
    IF r.ip # "undefined" THEN r.ip
    ELSE IF r.remoteAddress # "undefined" THEN r.remoteAddress
    ELSE "unknown"

ClientIps == {ClientIp(r) : r \in RateRequests}

\* userRequests.filter(time => now - time < windowMs)
validRequests(userRequests, t) ==
    SelectSeq(userRequests, LAMBDA time : t - time < WindowMs)

LimitReachedAbove(valid) == Len(valid) > MaxRequests

LimitReached(valid) == Len(valid) >= MaxRequests

NoSeen == [ip |-> "none", at |-> 0, outcome |-> "none", status |-> 0, message |-> <<>>]

\* requests is the Map of the closure, an absent key reading as the empty
\* list the middleware would set for it.  forwarded is the record of the
\* calls of next() the limiter has made, by client.
NoLimiter ==
    [clock |-> 0,
     requests |-> [ip \in ClientIps |-> <<>>],
     forwarded |-> [ip \in ClientIps |-> <<>>],
     seen |-> NoSeen]

RateTick ==
    /\ limiter.clock < MaxRateTime
    /\ limiter' = [limiter EXCEPT !.clock = @ + 1]
    /\ UNCHANGED <<codecVars, reqVars, checked, dbVars, app, reply, held, flights, lastWrite>>

\* The middleware on one request: 429 when the list of the client is full,
\* and the list is left as it was; else the time is pushed, the list is
\* stored and next() is called.
RateLimit(r) ==
    /\ LET ip == ClientIp(r)
           t == limiter.clock
           valid == validRequests(limiter.requests[ip], t)
       IN  IF LimitReached(valid)
           THEN limiter' = [limiter EXCEPT
                    !.seen = [ip |-> ip, at |-> t, outcome |-> "rejected", status |-> 429,
                              message |-> <<"Too many requests">>]]
           ELSE limiter' = [limiter EXCEPT
                    !.requests[ip] = Append(valid, t),
                    !.forwarded[ip] = Append(@, t),
                    !.seen = [ip |-> ip, at |-> t, outcome |-> "next", status |-> 0,
                              message |-> <<>>]]
    /\ UNCHANGED <<codecVars, reqVars, checked, dbVars, app, reply, held, flights, lastWrite>>

\* ---------------------------------------------------------- specifications
Init ==
    /\ now = 0
    /\ issued = NoIssued
    /\ pc = "idle"
    /\ req = Request(NoHeader, NullToken, NullToken)
    /\ route = <<>>
    /\ call = NoCall
    /\ gate = NoCall
    /\ res = NoResponse
    /\ handlerRan = FALSE
    /\ checked = NoChecked
    /\ users = <<>>
    /\ tasks = <<>>
    /\ comments = <<>>
    /\ app = NoApp
    /\ reply = NoReply
    /\ held = NoHeld
    /\ limiter = NoLimiter
    /\ flights = [s \in Slots |-> NoFlight]
    /\ lastWrite = NoWrite

\* The request pipeline.
Next ==
    \/ Tick
    \/ pc = "idle" /\ \E r \in Requests, chain \in Routes : NewRequest(r, chain)
    \/ AuthenticateToken
    \/ OptionalAuth
    \/ \E roles \in AllowedRoleSets : AuthorizeRoles(roles)
    \/ OwnershipStart
    \/ \E resource \in LookupResults : LookupReturns(resource)
    \/ LookupThrows
    \/ Handler
    \/ \E nodeEnv \in {"development", "production"} : GlobalErrorHandler(nodeEnv)
    \/ Finish

Spec == Init /\ [][Next]_vars

\* The token codec on its own: issuance here and elsewhere, the clock, and
\* verification of what was issued.
NextCodec ==
    \/ Tick
    \/ \E u \in Users, ty \in TokenTypes : GenerateToken(u, ty)
    \/ \E cfg \in ForeignConfigs, u \in Users, ty \in TokenTypes :
           ForeignGenerateToken(cfg, u, ty, FALSE)
    \/ \E u \in Users, ty \in TokenTypes : ForeignGenerateToken(OtherIssuer, u, ty, TRUE)
    \/ VerifyToken

SpecCodec == Init /\ [][NextCodec]_vars

\* The credential extractor on its own, on requests that carry credentials
\* in several places at once.
NextExtract == \E r \in ExtractRequests : ExtractToken(r)

SpecExtract == Init /\ [][NextExtract]_vars

\* The mandatory gate on requests of every method that carry credentials
\* in several places at once.
NextCredentials ==
    \/ pc = "idle" /\ \E r \in MethodRequests : NewRequest(r, <<"authenticateToken">>)
    \/ AuthenticateToken
    \/ Handler
    \/ \E nodeEnv \in {"development", "production"} : GlobalErrorHandler(nodeEnv)
    \/ Finish

SpecCredentials == Init /\ [][NextCredentials]_vars

\* The rate limiter on its own.
NextRate ==
    \/ RateTick
    \/ \E r \in RateRequests : RateLimit(r)

SpecRate == Init /\ [][NextRate]_vars

\* The application with accounts and tasks in store.
InitStored ==
    /\ now = 0
    /\ issued = NoIssued
    /\ pc = "idle"
    /\ req = Request(NoHeader, NullToken, NullToken)
    /\ route = <<>>
    /\ call = NoCall
    /\ gate = NoCall
    /\ res = NoResponse
    /\ handlerRan = FALSE
    /\ checked = NoChecked
    /\ users = StoredUsers
    /\ tasks = StoredTasks
    /\ comments = <<>>
    /\ app = NoApp
    /\ reply = NoReply
    /\ held = NoHeld
    /\ limiter = NoLimiter
    /\ flights = [s \in Slots |-> NoFlight]
    /\ lastWrite = NoWrite

\* PUT and DELETE /api/tasks/:id, two requests in flight at once, each
\* with a body that validateTask accepts.
NextRace ==
    \/ \E s \in Slots, r \in {"update", "delete"}, token \in FlightTokens, param \in IdParams :
           TaskArrives(s, r, token, param, TaskBody("new", 0))
    \/ \E s \in Slots : OwnershipResolves(s)
    \/ \E s \in Slots : HandlerFindResolves(s)
    \/ \E s \in Slots : WriteResolves(s)
    \/ \E s \in Slots : FetchResolves(s)
    \/ \E s \in Slots : FlightFinish(s)

SpecRace == InitStored /\ [][NextRace]_vars

\* POST /api/tasks and PUT /api/tasks/:id with every body, one request at
\* a time.
NextWrites ==
    \/ \E r \in {"create", "update"}, token \in FlightTokens, param \in IdParams,
          body \in TaskBodies :
           /\ r = "create" => Len(tasks) < Len(StoredTasks) + MaxTasks
           /\ TaskArrives(1, r, token, param, body)
    \/ OwnershipResolves(1)
    \/ HandlerFindResolves(1)
    \/ WriteResolves(1)
    \/ TaskCreateResolves(1)
    \/ FetchResolves(1)
    \/ FlightFinish(1)

SpecWrites == InitStored /\ [][NextWrites]_vars

\* The password policy on its own.
NextPolicy == \E password \in PasswordArguments : ValidatePasswordStrength(password)

SpecPolicy == Init /\ [][NextPolicy]_vars

\* The registration and login routes of the application.
NextApp ==
    \/ app.pc = "idle" /\ \E body \in RegisterBodies : Register(body)
    \/ ValidateUser
    \/ RegisterHandler
    \/ HashResolves
    \/ CreateResolves
    \/ app.pc = "idle" /\ \E body \in LoginBodies : Login(body)
    \/ FindResolves
    \/ CompareResolves
    \/ \E nodeEnv \in {"development", "production"} : AppErrorHandler(nodeEnv)
    \/ AppFinish

SpecApp == Init /\ [][NextApp]_vars

\* Tokens in the hands of clients while the application goes on serving
\* registrations and logins, the clock advances and stored rows change.
NextStateless ==
    \/ app.pc = "idle" /\ Tick
    \/ app.pc = "idle" /\ Len(users) < MaxUserId /\ Register(NextAccount)
    \/ ValidateUser
    \/ RegisterHandler
    \/ HashResolves
    \/ CreateResolves
    \/ app.pc = "idle" /\ \E body \in AccountLogins : Login(body)
    \/ FindResolves
    \/ CompareResolves
    \/ \E i \in 1..2 : KeepToken(i)
    \/ \E i \in 1..MaxUserId, role \in RoleValues : UserRoleChanges(i, role)
    \/ AppFinish

SpecStateless == Init /\ [][NextStateless]_vars

\* The whole authenticated application: registration, login and the task
\* and comment routes behind the gate.
NextTasks ==
    \/ app.pc = "idle" /\ Len(users) < MaxUserId /\ \E body \in NextAccounts : Register(body)
    \/ ValidateUser
    \/ RegisterHandler
    \/ HashResolves
    \/ CreateResolves
    \/ app.pc = "idle" /\ \E body \in AccountLogins : Login(body)
    \/ FindResolves
    \/ CompareResolves
    \/ app.pc = "idle" /\ \E r \in TaskRoutes, token \in TaskTokens, taskId \in 1..(MaxTasks + 1) :
           TaskRequest(r, token, taskId)
    \/ TaskGate
    \/ TaskOwnership
    \/ TaskHandler
    \/ \E nodeEnv \in {"development", "production"} : AppErrorHandler(nodeEnv)
    \/ AppFinish

SpecTasks == Init /\ [][NextTasks]_vars

\* ------------------------------------------------------------- properties
\* The failures, as the middleware raise them.
MissingCredential == AuthenticationError(<<"Access token is required">>)

Expired == AuthenticationError(<<"Token has expired">>)

Malformed == AuthenticationError(<<"Invalid token">>)

OtherFailure == AuthenticationError(<<"Token verification failed">>)

WrongTokenType == AuthenticationError(<<"Invalid token type">>)

Unauthenticated == AuthenticationError(<<"User not authenticated">>)

RoleDenied(role) == AuthorizationError(<<"Role ", role, " is not authorized">>)

OwnershipDenied == AuthorizationError(<<"Access denied to this resource">>)

ResourceNotFound == PlainError("Error", <<"Resource not found">>)

\* The token strings the request carries.
Carried(r) == {r.headers.authorization.rest, r.headers.xAccessToken, r.query.token}

\* The token is a claim set signed with the codec's secret, naming its
\* issuer and audience, and within its validity period at time t.
SignedByCodec(token) ==
    /\ token.fmt = "jwt"
    /\ token.sig = HMAC(JWT_CONFIG.secret, token.payload)

InValidity(token, t) ==
    /\ \A nb \in token.payload.nbf : nb <= t
    /\ t < token.payload.exp

VerifiesAt(token, t) ==
    /\ SignedByCodec(token)
    /\ token.payload.iss = JWT_CONFIG.issuer
    /\ token.payload.aud = JWT_CONFIG.audience
    /\ InValidity(token, t)

Projection(payload) ==
    [id |-> payload.userId, username |-> payload.username,
     email |-> payload.email, role |-> payload.role]

GateRan == gate.name = "authenticateToken"

Stopped == ~handlerRan /\ pc \in {"error", "responded"}

\* C1: the mandatory gate fails closed.  A request goes on past the gate
\* only if a token carried by the request was extracted, that token is
\* signed with the codec's secret, names its issuer and audience, is within
\* its validity period when the gate runs and has type 'access'; the
\* identity then attached is the projection {id, username, email, role} of
\* the token's claims.  Otherwise the request is stopped before the handler.
C1_GateFailsClosed ==
    GateRan =>
        IF gate.outcome = "next"
        THEN /\ gate.token \in Carried(req)
             /\ VerifiesAt(gate.token, gate.at)
             /\ gate.token.payload.type = "access"
             /\ req.user = Projection(gate.token.payload)
        ELSE /\ gate.outcome = "error"
             /\ Stopped

C1_Witness ==
    /\ GateRan
    /\ gate.outcome = "next"
    /\ handlerRan
    /\ req.user.role = "manager"

\* C2: when the extractor yields no token from the request, the mandatory
\* gate hands the MissingCredential failure to next, attaches no identity,
\* and the request does not reach the handler.
C2_MissingCredential ==
    (GateRan /\ ~Truthy(extractToken(req))) =>
        /\ gate.outcome = "error"
        /\ gate.error = MissingCredential
        /\ req.user = NoUser
        /\ Stopped

C2_Witness ==
    /\ GateRan
    /\ req = Request(NoHeader, NullToken, NullToken)
    /\ gate.error = MissingCredential
    /\ pc = "responded"

\* C3: the optional gate always calls next() with no error; it attaches an
\* identity, the projection of the claims, exactly when the extracted token
\* verifies and has type 'access', and attaches none on any failure.
C3_OptionalGate ==
    call.name = "optionalAuth" =>
        /\ call.outcome = "next"
        /\ call.error = NoError
        /\ pc # "error"
        /\ IF VerifiesAt(call.token, call.at) /\ call.token.payload.type = "access"
           THEN req.user = Projection(call.token.payload)
           ELSE req.user = NoUser

C3_Witness ==
    /\ call.name = "optionalAuth"
    /\ SignedByCodec(call.token)
    /\ call.token.payload.type = "refresh"
    /\ InValidity(call.token, call.at)
    /\ call.token.payload.iss = JWT_CONFIG.issuer
    /\ call.token.payload.aud = JWT_CONFIG.audience
    /\ call.outcome = "next"
    /\ req.user = NoUser

\* C4: a token that verifies but whose type is not 'access' is rejected by
\* the mandatory gate with WrongTokenType, and no identity is attached.
C4_WrongTokenType ==
    (GateRan /\ VerifiesAt(gate.token, gate.at) /\ gate.token.payload.type # "access") =>
        /\ gate.outcome = "error"
        /\ gate.error = WrongTokenType
        /\ req.user = NoUser
        /\ Stopped

C4_Witness ==
    /\ GateRan
    /\ VerifiesAt(gate.token, gate.at)
    /\ gate.token.payload.type = "refresh"
    /\ gate.error = WrongTokenType
    /\ res.status = 401

\* The last issuance was by this codec, of an access token, and verifyToken
\* has been called on it.
OwnAccessVerified ==
    /\ issued.config = JWT_CONFIG
    /\ issued.type = "access"
    /\ issued.verified.called

ClaimsMatch(decoded, user) ==
    /\ decoded.userId = user.id
    /\ decoded.role = user.role
    /\ decoded.email = user.email
    /\ decoded.type = "access"

\* C5 (amended): for every access token issued for an identity, verifyToken
\* returns claims whose subject id, role and email are the identity's and
\* whose type is 'access' at every time before the token's expires_at; at
\* expires_at and at every later time it fails with Expired.
C5_VerifyUntilExpiry ==
    OwnAccessVerified =>
        IF issued.verified.at < issued.token.payload.exp
        THEN /\ ~issued.verified.result.threw
             /\ ClaimsMatch(issued.verified.result.decoded, issued.user)
        ELSE /\ issued.verified.result.threw
             /\ issued.verified.result.error = Expired

\* C5 as stated: the token still verifies at expires_at itself and fails
\* with Expired only after it.
C5_Original ==
    OwnAccessVerified =>
        IF issued.verified.at <= issued.token.payload.exp
        THEN /\ ~issued.verified.result.threw
             /\ ClaimsMatch(issued.verified.result.decoded, issued.user)
        ELSE /\ issued.verified.result.threw
             /\ issued.verified.result.error = Expired

C5_Witness ==
    /\ OwnAccessVerified
    /\ issued.verified.at = issued.token.payload.exp
    /\ issued.verified.result.error = Expired

\* The last issuance was by a codec holding this codec's secret but naming
\* another issuer or audience, and verifyToken has been called on it.
WrongIssuerOrAudienceVerified ==
    /\ SignedByCodec(issued.token)
    /\ \/ issued.token.payload.iss # JWT_CONFIG.issuer
       \/ issued.token.payload.aud # JWT_CONFIG.audience
    /\ issued.verified.called

\* C6 (amended): a token with a correct signature but another issuer or
\* audience is never accepted by verifyToken.  The failure is Malformed
\* when the token is within its validity period; the codec tests not-before
\* and expiry first, so such a token is reported Expired at or after its
\* expires_at, and with the general failure before its not-before time.
C6_WrongIssuerRejected ==
    WrongIssuerOrAudienceVerified =>
        /\ issued.verified.result.threw
        /\ issued.verified.result.error =
              IF \E nb \in issued.token.payload.nbf : nb > issued.verified.at
              THEN OtherFailure
              ELSE IF issued.verified.at >= issued.token.payload.exp
              THEN Expired
              ELSE Malformed

\* C6 as stated, for the tokens without a not-before claim: the failure is
\* always Malformed, never Expired.
C6_Original ==
    (WrongIssuerOrAudienceVerified /\ issued.token.payload.nbf = {}) =>
        /\ issued.verified.result.threw
        /\ issued.verified.result.error = Malformed

C6_Witness ==
    /\ WrongIssuerOrAudienceVerified
    /\ issued.token.payload.iss # JWT_CONFIG.issuer
    /\ issued.token.payload.aud = JWT_CONFIG.audience
    /\ InValidity(issued.token, issued.verified.at)
    /\ issued.verified.result.error = Malformed

\* C7: the role check fails with Unauthenticated when no identity is
\* present, with RoleDenied when the identity's role is not in the allowed
\* set, and calls next() exactly when an identity is present and its role
\* is in the allowed set.
C7_RoleCheck ==
    call.name = "authorizeRoles" =>
        /\ req.user = NoUser => call.error = Unauthenticated
        /\ (req.user # NoUser /\ req.user.role \notin call.roles) =>
               call.error = RoleDenied(req.user.role)
        /\ call.outcome = "next" <=> (req.user # NoUser /\ req.user.role \in call.roles)
        /\ call.outcome = "error" => Stopped

C7_Witness ==
    /\ call.name = "authorizeRoles"
    /\ req.user # NoUser
    /\ req.user.role = "user"
    /\ call.roles = {ROLES.USER, ROLES.MODERATOR}
    /\ call.outcome = "next"
    /\ handlerRan

OwnershipDecided ==
    /\ call.name = "authorizeResourceOwnership"
    /\ call.lookup = "returned"

\* C8: with an identity present, the ownership check fails with
\* ResourceNotFound when the resource does not exist, whatever the role;
\* when it exists, an admin passes whatever the owner field holds, and any
\* other caller passes if and only if the owner field equals the caller's
\* id, and fails with OwnershipDenied otherwise.
C8_OwnershipCheck ==
    OwnershipDecided =>
        /\ req.user # NoUser
        /\ IF ~call.resource.found
           THEN call.error = ResourceNotFound
           ELSE IF req.user.role = "admin"
           THEN call.outcome = "next"
           ELSE IF call.resource.userId = req.user.id
           THEN call.outcome = "next"
           ELSE call.error = OwnershipDenied

C8_Witness ==
    /\ OwnershipDecided
    /\ req.user.role = "admin"
    /\ call.resource.found
    /\ call.resource.userId # req.user.id
    /\ call.outcome = "next"
    /\ handlerRan

\* C9: the ownership check tests the presence of the identity first: with
\* no identity it fails with Unauthenticated and findByPk is not called.
\* With an identity, next is not called while the lookup is pending, a
\* pass is decided only on a returned lookup, and a lookup that fails
\* stops the request before the handler.
C9_OwnershipOrdering ==
    call.name = "authorizeResourceOwnership" =>
        /\ call.userBefore = NoUser =>
               (call.lookup = "none" /\ call.error = Unauthenticated /\ Stopped)
        /\ call.userBefore # NoUser => call.lookup # "none"
        /\ call.lookup = "pending" =>
               (call.outcome = "pending" /\ pc = "lookup" /\ ~handlerRan)
        /\ call.outcome = "next" => call.lookup = "returned"
        /\ call.lookup = "threw" => (call.outcome = "error" /\ Stopped)

C9_Witness ==
    /\ call.name = "authorizeResourceOwnership"
    /\ call.userBefore = NoUser
    /\ call.lookup = "none"
    /\ call.error = Unauthenticated
    /\ res.status = 401

\* C10: the ResourceNotFound failure of the ownership check is rendered by
\* the error handler as status 404.
C10_NotFoundIs404 ==
    (OwnershipDecided /\ call.error = ResourceNotFound /\ pc = "responded") =>
        res.status = 404

\* The request was stopped by the middleware named and the error handler
\* has sent the response.
RenderedFailureOf(name) ==
    /\ call.name = name
    /\ call.outcome = "error"
    /\ pc = "responded"

\* C11: every authentication failure the mandatory gate raises
\* (MissingCredential, Expired, Malformed, WrongTokenType, and the general
\* verification failure) is rendered by the error handler as status 401;
\* RoleDenied and OwnershipDenied are rendered as status 403.
C11_FailureStatus ==
    /\ RenderedFailureOf("authenticateToken") =>
           /\ call.error \in {MissingCredential, Expired, Malformed, WrongTokenType,
                              OtherFailure}
           /\ res.status = 401
    /\ (pc = "responded" /\ call.error \in {RoleDenied(role) : role \in RoleValues}) =>
           res.status = 403
    /\ (pc = "responded" /\ call.error = OwnershipDenied) => res.status = 403

C11_Witness ==
    /\ RenderedFailureOf("authorizeRoles")
    /\ call.error = RoleDenied("manager")
    /\ gate.outcome = "next"
    /\ res = [status |-> 403, message |-> <<"Role ", "manager", " is not authorized">>]

\* A header or query value that carries a token: defined and not empty.
Present(value) == value # NullToken /\ value # EmptyToken

\* C12: extractor priority, first match wins.  An Authorization header of
\* the form 'Bearer <token>' yields the text after the prefix; an
\* Authorization header without the 'Bearer ' prefix counts as absent;
\* then the x-access-token header's value is returned if it carries one,
\* else the token query parameter if it carries one, else none.
C12_ExtractorPriority ==
    call.name = "extractToken" =>
        call.token =
            IF req.headers.authorization.scheme = "Bearer "
            THEN req.headers.authorization.rest
            ELSE IF Present(req.headers.xAccessToken)
            THEN req.headers.xAccessToken
            ELSE IF Present(req.query.token)
            THEN req.query.token
            ELSE NullToken

C12_Witness ==
    /\ call.name = "extractToken"
    /\ req.headers.authorization = RawHeader(JunkToken)
    /\ Present(req.headers.xAccessToken)
    /\ Present(req.query.token)
    /\ req.query.token # req.headers.xAccessToken
    /\ call.token = req.headers.xAccessToken

\* C13: a token this codec issues with type 'access' has expires_at equal
\* to its issue time plus the access lifetime (24 hours), and one issued
\* with type 'refresh' has expires_at equal to its issue time plus the
\* refresh lifetime (7 days); the issue time is the clock reading at the
\* call, and the two lifetimes are separate settings of the configuration.
C13_TokenLifetimes ==
    (issued.token # NullToken /\ issued.config = JWT_CONFIG) =>
        /\ issued.token.payload.iat = issued.at
        /\ issued.type = "access" =>
               issued.token.payload.exp = issued.token.payload.iat + ExpiresIn
        /\ issued.type = "refresh" =>
               issued.token.payload.exp = issued.token.payload.iat + RefreshExpiresIn
        /\ issued.token.payload.type = issued.type

C13_Witness ==
    /\ issued.config = JWT_CONFIG
    /\ issued.type = "refresh"
    /\ issued.at = 1
    /\ issued.token.payload.iat = 1
    /\ issued.token.payload.exp = 1 + RefreshExpiresIn

\* The rules of the policy in their fixed order, each with the message of
\* its violation and with what it demands of a string.
PolicyRules == <<"min-length", "uppercase", "lowercase", "digit", "special">>

RuleMessage(rule) ==
    CASE rule = "min-length" -> "Password must be at least 8 characters long"
      [] rule = "uppercase" -> "Password must contain at least one uppercase letter"
      [] rule = "lowercase" -> "Password must contain at least one lowercase letter"
      [] rule = "digit" -> "Password must contain at least one number"
      [] rule = "special" -> "Password must contain at least one special character"

Violates(chars, rule) ==
    CASE rule = "min-length" -> Len(chars) < 8
      [] rule = "uppercase" -> \A i \in 1..Len(chars) : chars[i] \notin UpperCase
      [] rule = "lowercase" -> \A i \in 1..Len(chars) : chars[i] \notin LowerCase
      [] rule = "digit" -> \A i \in 1..Len(chars) : chars[i] \notin Digits
      [] rule = "special" -> \A i \in 1..Len(chars) : chars[i] \notin SpecialChars

\* The position of a message in the fixed order (0: not a rule's message).
RulePosition(message) ==
    IF \E k \in 1..Len(PolicyRules) : RuleMessage(PolicyRules[k]) = message
    THEN CHOOSE k \in 1..Len(PolicyRules) : RuleMessage(PolicyRules[k]) = message
    ELSE 0

CheckedString == checked.called /\ checked.password.defined

\* C15: under the default rules, the violation list of
\* validatePasswordStrength holds exactly one entry for each violated rule
\* and none for the others, in the fixed order min-length, uppercase,
\* lowercase, digit, special; the result is valid if and only if the list
\* is empty.  "abc" yields the four violations min-length, uppercase,
\* digit, special, and "Abcdef1!" yields none.
C15_PolicyViolations ==
    CheckedString =>
        LET chars == checked.password.chars
            errors == checked.result.errors
        IN  /\ ~checked.result.threw
            /\ \A k \in 1..Len(PolicyRules) :
                   Cardinality({i \in 1..Len(errors) : errors[i] = RuleMessage(PolicyRules[k])})
                       = IF Violates(chars, PolicyRules[k]) THEN 1 ELSE 0
            /\ \A i \in 1..Len(errors) : RulePosition(errors[i]) # 0
            /\ \A i, j \in 1..Len(errors) :
                   i < j => RulePosition(errors[i]) < RulePosition(errors[j])
            /\ checked.result.isValid <=> errors = <<>>
            /\ chars = <<"a", "b", "c">> =>
                   errors = <<RuleMessage("min-length"), RuleMessage("uppercase"),
                              RuleMessage("digit"), RuleMessage("special")>>
            /\ chars = <<"A", "b", "c", "d", "e", "f", "1", "!">> =>
                   (errors = <<>> /\ checked.result.isValid)

C15_Witness ==
    /\ CheckedString
    /\ checked.password.chars = <<"a", "b", "c">>
    /\ Len(checked.result.errors) = 4
    /\ ~checked.result.isValid

\* C16: validatePasswordStrength is total: for every argument, the empty
\* string and the absent value included, it returns its result record and
\* does not throw.
C16_PolicyTotal ==
    checked.called => ~checked.result.threw

\* The password breaks the policy: it is absent, or it violates a rule.
PolicyViolated(password) ==
    \/ ~password.defined
    \/ \E k \in 1..Len(PolicyRules) : Violates(password.chars, PolicyRules[k])

\* C17: a registration request whose password violates the policy is
\* rejected before the hasher is called: while it is handled and after it,
\* hashPassword and User.create have not been called for it, the users
\* table holds what it held when the request arrived, no token has been
\* issued, and the response is a 400 without tokens.
C17_RegistrationOrdering ==
    (app.route = "register" /\ PolicyViolated(app.body.password)) =>
        /\ app.hashCalls = 0
        /\ app.createCalls = 0
        /\ Len(users) = app.usersBefore
        /\ app.tokens = <<>>
        /\ app.pc # "error"
        /\ app.pc = "responded" =>
               (reply.status = 400 /\ reply.tokens = <<>> /\ reply.user = <<>>)

C17_Witness ==
    /\ app.route = "register"
    /\ app.body.password = LowercasePassword
    /\ app.pc = "responded"
    /\ checked.called
    /\ checked.password = LowercasePassword
    /\ reply.status = 400
    /\ reply.message = <<"Password validation failed">>
    /\ Len(reply.details) = 3
    /\ app.hashCalls = 0

\* The request in flight has been answered with success: 201 for a
\* registration, 200 for a login.
Succeeded ==
    /\ app.pc = "responded"
    /\ \/ app.route = "register" /\ reply.status = 201
       \/ app.route = "login" /\ reply.status = 200

TokensOfType(tokens, type) ==
    {i \in 1..Len(tokens) : tokens[i].payload.type = type}

\* C18: every successful registration and every successful login issues
\* exactly one access token and one refresh token, after the password has
\* been hashed (registration) or verified (login); both tokens verify, and
\* their claims carry one subject id, that of the stored user record, and
\* the role stored in that record.  No other request is issued a token.
C18_TokensOnSuccess ==
    /\ Succeeded =>
           /\ Len(app.tokens) = 2
           /\ Cardinality(TokensOfType(app.tokens, "access")) = 1
           /\ Cardinality(TokensOfType(app.tokens, "refresh")) = 1
           /\ reply.tokens = app.tokens
           /\ \A i \in 1..Len(app.tokens) :
                  LET verified == verifyToken(app.tokens[i])
                      id == verified.decoded.userId
                  IN  /\ ~verified.threw
                      /\ id = app.tokens[1].payload.userId
                      /\ id \in 1..Len(users)
                      /\ users[id].id = id
                      /\ verified.decoded.role = users[id].role
                      /\ \/ users[id].username = app.body.username
                         \/ users[id].email = app.body.email
    /\ app.tokens # <<>> =>
           /\ Succeeded
           /\ app.route = "register" => (app.hashCalls = 1 /\ app.createCalls = 1)
           /\ app.route = "login" =>
                  /\ app.compareCalls = 1
                  /\ app.found.password = BcryptHash(app.body.password, SaltRounds)

C18_Witness ==
    /\ Succeeded
    /\ app.route = "login"
    /\ app.body.username = <<>>
    /\ app.found.role = "manager"
    /\ app.found.id = 2
    /\ app.tokens[1].payload.role = "manager"
    /\ app.tokens[2].payload.type = "refresh"

\* C19: every role carried by a token that registration or login issues,
\* and so every role a caller identity can hold, is a member of the role
\* enumeration the authentication module exports: user, admin, moderator.
C19_ClosedRoleSet ==
    \A i \in 1..Len(app.tokens) :
        app.tokens[i].payload.role \in {ROLES.USER, ROLES.ADMIN, ROLES.MODERATOR}

\* The held token presented as a bearer credential.
HeldRequest == Request(Bearer(held.token), NullToken, NullToken)

\* C14: token validity is stateless.  A token the application issued
\* passes verifyToken with the claims of the identity it was issued for at
\* every time before its expires_at, and an access token then passes the
\* mandatory gate with that identity, whatever has happened since it was
\* issued: further registrations and logins, newer tokens for the same
\* user, changes of the user's stored row.  From expires_at on it fails
\* with Expired: the outcome depends on the token and the clock alone.
C14_StatelessValidity ==
    held.token # NullToken =>
        LET verified == verifyToken(held.token)
            passed == authenticateToken(HeldRequest)
        IN  IF now < held.token.payload.exp
            THEN /\ ~verified.threw
                 /\ verified.decoded.userId = held.user.id
                 /\ verified.decoded.username = held.user.username
                 /\ verified.decoded.email = held.user.email
                 /\ verified.decoded.role = held.user.role
                 /\ held.token.payload.type = "access" =>
                        /\ passed.error = NoError
                        /\ passed.user = [id |-> held.user.id,
                                          username |-> held.user.username,
                                          email |-> held.user.email,
                                          role |-> held.user.role]
            ELSE /\ verified.threw
                 /\ verified.error = Expired
                 /\ passed.error = Expired

C14_Witness ==
    /\ held.token # NullToken
    /\ held.token.payload.type = "access"
    /\ held.at < now
    /\ now < held.token.payload.exp
    /\ users[held.user.id].role # held.user.role
    /\ Len(users) > held.user.id
    /\ app.pc = "responded"
    /\ app.route = "login"
    /\ app.found.id = held.user.id
    /\ app.tokens # <<>>
    /\ authenticateToken(HeldRequest).error = NoError

\* The user objects anywhere in a response: the user of the body, the User
\* of each task or comment, and the User of each comment of a task.
UserObjects(response) ==
    {response.user[i] : i \in 1..Len(response.user)}
    \cup {response.items[i].User : i \in 1..Len(response.items)}
    \cup UNION {{response.items[i].TaskComments[j].User :
                    j \in 1..Len(response.items[i].TaskComments)} :
                i \in {k \in 1..Len(response.items) :
                          "TaskComments" \in DOMAIN response.items[k]}}

\* C20: no response of the authenticated application (registration, login,
\* task list, read, create and update, comment create) contains the
\* password field of a user, which holds the stored hash.
C20_NoPasswordInResponses ==
    \A object \in UserObjects(reply) : "password" \notin DOMAIN object

C20_Witness ==
    /\ app.route = "register"
    /\ reply.status = 201
    /\ Len(reply.user) = 1
    /\ reply.user[1].id = Len(users)
    /\ users[Len(users)].password = BcryptHash(GoodPassword, SaltRounds)
    /\ DOMAIN reply.user[1] = {"id", "username", "email", "role", "isActive"}

\* C21: the reason (kind and message) of an authentication or
\* authorization failure never contains the contents of the claims of the
\* caller's token.  The parts of a message are fixed texts and, in the
\* message of the role check, the role; so the claim is that no part of
\* the message of a failure, as raised and as rendered in the response, is
\* the role claim of the token the request carries.
C21_ReasonsHideClaims ==
    (call.outcome = "error" /\ call.token.fmt = "jwt") =>
        /\ \A i \in 1..Len(call.error.message) :
               call.error.message[i] # call.token.payload.role
        /\ \A i \in 1..Len(res.message) :
               res.message[i] # call.token.payload.role


\* C22: the token query parameter is a credential source for GET requests
\* only.  On a request of another method that carries a token in the query
\* string and in no header, the extractor yields none and the gate fails
\* with MissingCredential.
C22_QueryTokenForGetOnly ==
    (/\ GateRan
     /\ req.method # "GET"
     /\ ~HeaderTruthy(req.headers.authorization)
     /\ ~Truthy(req.headers.xAccessToken)
     /\ Truthy(req.query.token)) =>
        /\ gate.token = NullToken
        /\ gate.error = MissingCredential

\* C27: first match wins even when the match is empty.  When the
\* Authorization header starts with 'Bearer ' the gate works on the text
\* after the prefix and on nothing else; when that text is empty the
\* request is rejected with MissingCredential, whatever x-access-token and
\* the query parameter carry.
C27_EmptyBearerWins ==
    (GateRan /\ StartsWithBearer(req.headers.authorization)) =>
        /\ gate.token = Substring7(req.headers.authorization)
        /\ Substring7(req.headers.authorization) = EmptyToken =>
               /\ gate.error = MissingCredential
               /\ req.user = NoUser
               /\ Stopped

C27_Witness ==
    /\ GateRan
    /\ req.headers.authorization = Bearer(EmptyToken)
    /\ req.headers.xAccessToken.fmt = "jwt"
    /\ ~verifyToken(req.headers.xAccessToken).threw
    /\ gate.error = MissingCredential
    /\ res.status = 401


\* The forwarded requests of a client before the request seen last.
ForwardedBefore ==
    LET all == limiter.forwarded[limiter.seen.ip]
    IN  IF limiter.seen.outcome = "next" THEN SubSeq(all, 1, Len(all) - 1) ELSE all

\* C23: the rate limiter forwards, per client IP, at most maxRequests
\* requests within any window (any span of less than windowMs); a request
\* that arrives while maxRequests forwarded requests of its IP lie within
\* the window before it is answered 429 and not forwarded; the requests of
\* other IPs do not count.
C23_RateLimit ==
    /\ \A ip \in ClientIps :
           LET times == limiter.forwarded[ip]
           IN  \A i \in 1..Len(times) :
                   Cardinality({j \in i..Len(times) : times[j] - times[i] < WindowMs})
                       <= MaxRequests
    /\ limiter.seen.outcome # "none" =>
           LET recent == {j \in 1..Len(ForwardedBefore) :
                              limiter.seen.at - ForwardedBefore[j] < WindowMs}
           IN  Cardinality(recent) >= MaxRequests =>
                   /\ limiter.seen.outcome = "rejected"
                   /\ limiter.seen.status = 429

\* A client is turned away while another client, which has sent requests
\* in the same window, is still below the limit.
C23_Witness ==
    /\ limiter.seen.outcome = "rejected"
    /\ limiter.seen.status = 429
    /\ \E ip \in ClientIps \ {limiter.seen.ip} :
           /\ Len(limiter.forwarded[ip]) > 0
           /\ Len(validRequests(limiter.requests[ip], limiter.clock)) < MaxRequests
    /\ Len(limiter.forwarded[limiter.seen.ip]) > MaxRequests


Middleware ==
    {"authenticateToken", "optionalAuth", "authorizeRoles", "authorizeResourceOwnership"}

C26_RoleFromBody ==
    (app.pc = "responded" /\ app.route = "register" /\ reply.status = 201) =>
        LET role == IF app.body.role = "undefined" THEN "user" ELSE app.body.role
            row == users[Len(users)]
            entry == authenticateToken(Request(Bearer(app.tokens[1]), NullToken, NullToken))
        IN  /\ app.token = NullToken
            /\ app.user = NoUser
            /\ role \in {"user", "admin", "manager"}
            /\ Len(users) = app.usersBefore + 1
            /\ row.role = role
            /\ \A i \in 1..Len(app.tokens) : app.tokens[i].payload.role = role
            /\ entry.error = NoError
            /\ entry.user.id = row.id
            /\ entry.user.role = role

C26_Witness ==
    /\ app.pc = "responded"
    /\ app.route = "register"
    /\ reply.status = 201
    /\ app.body.role = "admin"
    /\ app.token = NullToken
    /\ app.usersBefore = 0
    /\ LET r == Request(Bearer(reply.tokens[1]), NullToken, NullToken)
           entry == authenticateToken(r)
       IN  /\ entry.error = NoError
           /\ entry.user.role = "admin"
           /\ authorizeRoles({ROLES.ADMIN}, [r EXCEPT !.user = entry.user]).error = NoError


\* The login request in flight names a stored user and carries the
\* password of that user.
LoginMatches ==
    LET key == IF app.body.username # <<>> THEN app.body.username ELSE app.body.email
    IN  \E i \in 1..Len(users) :
            /\ users[i].username = key \/ users[i].email = key
            /\ app.body.password.defined
            /\ users[i].password = BcryptHash(app.body.password, SaltRounds)

\* C29: login does not reveal whether an account exists.  A login that
\* names no stored user and a login that names a stored user without the
\* password of that user get the same response, 401 'Invalid credentials',
\* and neither is issued a token.
C29_LoginHidesExistence ==
    (app.pc = "responded" /\ app.route = "login" /\ ~LoginMatches) =>
        /\ reply = ErrorReply(401, <<"Invalid credentials">>, <<>>)
        /\ app.tokens = <<>>


\* C24: under any interleaving of concurrent requests, a task is updated
\* or destroyed through PUT or DELETE /api/tasks/:id only by a request
\* that passed the gate and whose caller, at the moment of the write, is an
\* admin or the owner of that task; what happens between the lookup of the
\* ownership check and the lookup of the handler never lets another caller
\* write.
C24_OnlyOwnerOrAdminWrites ==
    (lastWrite.kind \in {"update", "delete"} /\ lastWrite.existed) =>
        /\ lastWrite.by # NoUser
        /\ lastWrite.by.role = "admin" \/ lastWrite.by.id = lastWrite.ownerBefore

\* C25: no update that succeeds changes the owner of the task, whatever
\* body validateTask has accepted, and the owner of a created task is the
\* id of the authenticated caller, never a value of the body.
C25_OwnerNeverWritten ==
    /\ lastWrite.kind = "update" /\ lastWrite.existed =>
           lastWrite.ownerAfter = lastWrite.ownerBefore
    /\ lastWrite.kind = "create" =>
           /\ lastWrite.by # NoUser
           /\ lastWrite.ownerAfter = lastWrite.by.id
           /\ FindTask(lastWrite.taskId).userId = lastWrite.by.id
    /\ \A i \in 1..Len(StoredTasks) :
           FindTask(StoredTasks[i].id).userId = StoredTasks[i].userId

\* An admin has rewritten the task of a user, which is still that user's,
\* and a task has been created since.
C25_Witness ==
    /\ lastWrite.kind = "create"
    /\ lastWrite.by.id = 2
    /\ FindTask(lastWrite.taskId).userId = 2
    /\ FindTask(1).title = "new"
    /\ FindTask(1).userId = 1
    /\ flights[1].status = 201

====
